---------------------------- MODULE Spec2Model ----------------------------
(***************************************************************************)
(* Model of the conversation orchestration pipeline of genai-rag:          *)
(*   app/core/chat_manager.py     ChatManager.process_message and helpers  *)
(*   app/core/guardrails.py       GuardrailsManager                        *)
(*   app/core/session_manager.py  SessionManager (the history store)       *)
(*   app/core/tool_detector.py    ToolDetector                             *)
(*   app/core/conversation_flow.py ConversationFlowManager                 *)
(*   app/dependencies.py          get_chat_manager (one manager a request) *)
(*                                                                         *)
(* A text is a record [w, fill, cut]: the words w (separated by single     *)
(* blanks), followed, when fill > 0, by one more word of fill letters 'x', *)
(* followed, when cut, by the truncation notice of validate_ai_response.   *)
(* Regular expressions of the source are evaluated on the words; the       *)
(* character classes of a word come from the vocabulary tables below.      *)
(* Time is counted in minutes.                                             *)
(*                                                                         *)
(* Spec serves requests (process_message, clear_session) one at a time.    *)
(* SpecCalls calls single functions of the core on small argument sets.    *)
(***************************************************************************)
EXTENDS Integers, Sequences, FiniteSets, TLC

VARIABLES
    settings,           \* Settings: the configuration the process started with
    registry,           \* ToolRegistry: names of the registered tools
    now,                \* datetime.utcnow(), in minutes
    ticks,              \* number of clock steps taken (bounds the model)
    sessions,           \* table ChatSession, by session_id
    messages,           \* table ConversationMessage, by session_id, in insertion order
    error_log,          \* table ErrorLog, by session_id
    violation_history,  \* GuardrailsManager.violation_history of each request's manager
    turn,               \* the process_message call of each request slot
    nturns,             \* number of process_message calls started (bounds the model)
    nclears,            \* number of clear_session calls made (bounds the model)
    last_clear,         \* what the last clear_session call did
    faults,             \* number of faults injected (bounds the model)
    call                \* a single call of one function of the core, outside a turn

vars == <<settings, registry, now, ticks, sessions, messages, error_log,
          violation_history, turn, nturns, nclears, last_clear, faults, call>>

-----------------------------------------------------------------------------
(* Bounds of the model *)

\* requests served in a run: process_message and clear_session calls
MaxRequests == 3
MaxTicks == 1
MaxClears == 1
MaxFaults == 1
\* guardrails.max_conversation_length as configured for the model
\* (GuardrailsConfig's default is 50)
MaxConversationLength == 4

(* Program constants *)

MaxInputLength == 2000
SessionTimeoutMinutes == 30
ViolationRetentionMinutes == 1440
ShortMessageWindowMinutes == 5
ShortMessageChars == 2
ShortMessageLimit == 3
MaxResponseChars == 5000
TruncatedResponseChars == 4800
TruncationNoticeChars == 35
RepetitionWindow == 5
DuplicateLimit == 2
SimilarLimit == 3
ToolContextWindow == 6
OffTopicWordLimit == 3
ContextWindow == 10

SessionIds == {"session-0001"}
Slots == {1, 2}
NoTool == "none"
DeliveryTracker == "delivery_tracker"

-----------------------------------------------------------------------------
(* Texts and the vocabulary *)

Text(ws) == [w |-> ws, fill |-> 0, cut |-> FALSE]
Padded(ws, n) == [w |-> ws, fill |-> n, cut |-> FALSE]

\* str.lower() on a token of the vocabulary
Lower(word) ==
    CASE word = "Track" -> "track"
      [] word = "Response" -> "response"
      [] word = "AB1234567890" -> "ab1234567890"
      [] word = "AB1234" -> "ab1234"
      [] OTHER -> word

\* str.upper() on a word of the vocabulary that an identifier pattern can match
Upper(word) ==
    CASE word = "ab1234567890" -> "AB1234567890"
      [] word = "ab1234" -> "AB1234"
      [] word = "delivery" -> "DELIVERY"
      [] word = "tracking" -> "TRACKING"
      [] word = "shipment" -> "SHIPMENT"
      [] word = "tomorrow" -> "TOMORROW"
      [] OTHER -> word

\* the maximal runs of letters and digits of a token (what lies between \b and \b)
Subwords(word) ==
    CASE word = "number?" -> <<"number">>
      [] word = "123-45-6789" -> <<"123", "45", "6789">>
      [] word = "a@b.com" -> <<"a", "b", "com">>
      [] OTHER -> <<word>>

\* words of the vocabulary made of digits only
DigitWords == {"1234567890", "123456789", "123", "45", "6789"}
\* tokens of the vocabulary that hold a '?'
QuestionWords == {"number?"}
\* tokens of the vocabulary of the form local@domain.tld
EmailWords == {"a@b.com"}

\* a word as its lower-case form, its length, and its leading letters, digits
\* and trailing letters
Word(x) ==
    CASE Lower(x) = "ab1234567890" ->
            [s |-> Lower(x), n |-> Len(x), lead |-> 2, digits |-> 10, trail |-> 0]
      [] Lower(x) = "ab1234" ->
            [s |-> Lower(x), n |-> Len(x), lead |-> 2, digits |-> 4, trail |-> 0]
      [] x \in DigitWords ->
            [s |-> x, n |-> Len(x), lead |-> 0, digits |-> Len(x), trail |-> 0]
      [] OTHER ->
            [s |-> Lower(x), n |-> Len(x), lead |-> Len(x), digits |-> 0, trail |-> 0]

\* the padding word: n letters
FillerWord(n) ==
    [s |-> "x*" \o ToString(n), n |-> n, lead |-> n, digits |-> 0, trail |-> 0]

NoticeWords == <<"Response", "truncated", "for", "length">>

RECURSIVE Flatten(_)
Flatten(ws) == IF ws = <<>> THEN <<>> ELSE Subwords(ws[1]) \o Flatten(Tail(ws))

\* the words of a text, in order, as the regular expressions of the source see them
Words(t) ==
    LET f == Flatten(t.w)
    IN  [i \in 1..Len(f) |-> Word(f[i])]
        \o (IF t.fill > 0 THEN <<FillerWord(t.fill)>> ELSE <<>>)
        \o (IF t.cut THEN [i \in 1..Len(NoticeWords) |-> Word(NoticeWords[i])] ELSE <<>>)

RECURSIVE WordsLen(_)
\* len(" ".join(ws))
WordsLen(ws) ==
    IF ws = <<>> THEN 0
    ELSE IF Len(ws) = 1 THEN Len(ws[1])
    ELSE Len(ws[1]) + 1 + WordsLen(Tail(ws))

\* len(text); a text has no blank at either end, so this is len(text.strip()) too
TextLen(t) ==
    WordsLen(t.w)
    + (IF t.fill > 0 THEN t.fill + (IF t.w = <<>> THEN 0 ELSE 1) ELSE 0)
    + (IF t.cut THEN TruncationNoticeChars ELSE 0)

\* len(text.split()): the notice's "..." joins the token before it
SplitCount(t) ==
    Len(t.w) + (IF t.fill > 0 THEN 1 ELSE 0) + (IF t.cut THEN Len(NoticeWords) ELSE 0)

\* set(text.lower().split())
WordSet(t) ==
    {Lower(t.w[i]) : i \in 1..Len(t.w)}
    \cup (IF t.fill > 0 THEN {FillerWord(t.fill).s} ELSE {})
    \cup (IF t.cut THEN {Lower(NoticeWords[i]) : i \in 1..Len(NoticeWords)} ELSE {})

\* re.search(r'\b(?:a|b|c)\b', text.lower())
HasWord(t, set) == \E i \in 1..Len(Words(t)) : Words(t)[i].s \in set

\* re.search(r'\ba\s*b\b', text.lower()) on two adjacent words
HasPair(t, first, second) ==
    \E i \in 1..(Len(Words(t)) - 1) :
        Words(t)[i].s = first /\ Words(t)[i + 1].s = second

\* '?' in text
HasQuestionMark(t) == \E i \in 1..Len(t.w) : t.w[i] \in QuestionWords

\* utils.count_tokens: the tokenizer is external (tiktoken); one token a blank-separated token
CountTokens(t) == SplitCount(t)

\* seq[-n:]
LastN(seq, n) ==
    IF Len(seq) <= n THEN seq ELSE SubSeq(seq, Len(seq) - n + 1, Len(seq))

-----------------------------------------------------------------------------
(* GuardrailsManager *)

InappropriateWords ==
    {"spam", "test", "abuse", "harmful", "hack", "exploit", "bypass",
     "illegal", "fraud", "scam"}
OffTopicPatternWords ==
    {"weather", "sports", "politics", "entertainment", "recipe", "cooking",
     "travel", "music", "joke", "story", "poem", "creative", "personal",
     "relationship", "advice"}
ToolKeywordWords ==
    {"delivery", "tracking", "shipment", "package", "order", "track", "status",
     "update", "help", "assist", "support", "service"}
CourtesyWords == {"hello", "hi", "hey", "thanks", "please", "help"}
\* the words of the vocabulary that contain one of the tool indicators
ToolIndicatorWords ==
    {"delivery", "tracking", "shipment", "package", "status", "update", "track",
     "order"}
\* digit groups, separated by one '-' or blank, that the patterns accept
SsnGroups == {<<9>>, <<3, 6>>, <<5, 4>>, <<3, 2, 4>>}
CardGroups ==
    {<<16>>, <<4, 12>>, <<8, 8>>, <<12, 4>>, <<4, 4, 8>>, <<4, 8, 4>>,
     <<8, 4, 4>>, <<4, 4, 4, 4>>}

NoViolations == [s \in SessionIds |-> <<>>]

\* _record_violation: append, then keep the entries of the last 24 hours
RecordViolation(ledger, sid, type, t) ==
    LET added == Append(ledger[sid], [type |-> type, timestamp |-> t])
        keep(v) == v.timestamp > t - ViolationRetentionMinutes
    IN  [ledger EXCEPT ![sid] = SelectSeq(added, keep)]

\* _get_recent_violations
RecentViolations(ledger, sid, type, minutes, t) ==
    LET recent(v) == v.type = type /\ v.timestamp > t - minutes
    IN  SelectSeq(ledger[sid], recent)

\* a length check that compares with the response limit instead of
\* max_input_length
CheckMessageLengthAgainstResponseLimit(m) ==
    IF TextLen(m) > MaxResponseChars THEN "too_long"
    ELSE IF TextLen(m) = 0 THEN "empty"
    ELSE "ok"

\* _check_message_length
CheckMessageLength(m) ==
    IF TextLen(m) > MaxInputLength THEN "too_long"
    ELSE IF TextLen(m) = 0 THEN "empty"
    ELSE "ok"

\* _check_inappropriate_content: whether a pattern matches
InappropriateContent(m) ==
    settings.content_filter_enabled /\ HasWord(m, InappropriateWords)

\* a run of k words from position i made of digits only, with the given lengths
DigitGroup(ws, i, lens) ==
    /\ i + Len(lens) - 1 <= Len(ws)
    /\ \A k \in 1..Len(lens) :
          /\ ws[i + k - 1].lead = 0
          /\ ws[i + k - 1].trail = 0
          /\ ws[i + k - 1].digits = lens[k]

\* _check_sensitive_information: whether a pattern matches
SensitiveInformation(m) ==
    \/ \E i \in 1..Len(Words(m)) :
          \E lens \in SsnGroups \cup CardGroups : DigitGroup(Words(m), i, lens)
    \/ \E i \in 1..Len(m.w) : m.w[i] \in EmailWords

\* variant: tool context looked up in the whole history
HasToolContextAnywhere(history) ==
    \E i \in 1..Len(history) :
        history[i].role = "assistant" /\ HasWord(history[i].content, ToolIndicatorWords)

\* _has_recent_tool_context
HasRecentToolContext(history) ==
    \E i \in 1..Len(LastN(history, ToolContextWindow)) :
        LET msg == LastN(history, ToolContextWindow)[i]
        IN  msg.role = "assistant" /\ HasWord(msg.content, ToolIndicatorWords)

\* _check_tool_relevance: whether the message is blocked as off-topic
OffTopic(m, history) ==
    LET tool_relevant == HasWord(m, ToolKeywordWords)
        is_courtesy ==
            \/ HasWord(m, CourtesyWords)
            \/ HasPair(m, "thank", "you")
            \/ \E part \in {"morning", "afternoon", "evening"} : HasPair(m, "good", part)
        recent_tool_context == HasRecentToolContext(history)
    IN  /\ ~(tool_relevant \/ is_courtesy \/ recent_tool_context)
        /\ (HasWord(m, OffTopicPatternWords) \/ SplitCount(m) > OffTopicWordLimit)

\* a conversation limit that lets a history of exactly the maximum length pass
CheckConversationLimitsStrict(history, t) ==
    IF Len(history) > MaxConversationLength THEN "conversation_limit"
    ELSE IF history # <<>> /\ t - history[1].timestamp > SessionTimeoutMinutes
         THEN "session_timeout"
    ELSE "ok"

\* _check_conversation_limits
CheckConversationLimits(history, t) ==
    IF Len(history) >= MaxConversationLength THEN "conversation_limit"
    ELSE IF history # <<>> /\ t - history[1].timestamp > SessionTimeoutMinutes
         THEN "session_timeout"
    ELSE "ok"

\* _calculate_similarity(msg1, msg2) > 0.8
Similar(m1, m2) ==
    \/ m1 = m2
    \/ /\ WordSet(m1) # {}
       /\ WordSet(m2) # {}
       /\ 5 * Cardinality(WordSet(m1) \cap WordSet(m2))
            > 4 * Cardinality(WordSet(m1) \cup WordSet(m2))

\* the contents of the user messages among the last five of the history
RecentUserMessages(history) ==
    LET recent == LastN(history, RepetitionWindow)
        isUser(msg) == msg.role = "user"
        users == SelectSeq(recent, isUser)
    IN  [i \in 1..Len(users) |-> users[i].content]

\* a count of duplicates that includes the message being validated
DuplicateCountWithCurrent(m, history) ==
    1 + Cardinality({i \in 1..Len(RecentUserMessages(history)) :
                        RecentUserMessages(history)[i] = m})

\* recent_user_messages.count(message)
DuplicateCount(m, history) ==
    Cardinality({i \in 1..Len(RecentUserMessages(history)) :
                    RecentUserMessages(history)[i] = m})

SimilarCount(m, history) ==
    Cardinality({i \in 1..Len(RecentUserMessages(history)) :
                    Similar(m, RecentUserMessages(history)[i])})

\* _check_repetitive_patterns
CheckRepetitivePatterns(m, history) ==
    IF Len(history) < 2 THEN "ok"
    ELSE IF DuplicateCount(m, history) >= DuplicateLimit THEN "repetitive_message"
    ELSE IF SimilarCount(m, history) >= SimilarLimit THEN "similar_messages"
    ELSE "ok"

\* _check_rate_limiting_patterns: the verdict and the ledger it leaves
CheckRateLimitingPatterns(m, sid, ledger, t) ==
    IF TextLen(m) <= ShortMessageChars
    THEN IF Len(RecentViolations(ledger, sid, "short_message",
                                 ShortMessageWindowMinutes, t)) >= ShortMessageLimit
         THEN [error |-> "short_message_pattern", ledger |-> ledger]
         ELSE [error |-> "ok",
               ledger |-> RecordViolation(ledger, sid, "short_message", t)]
    ELSE [error |-> "ok", ledger |-> ledger]

\* variant: the sensitive-information check placed before the content filter
ValidateUserMessageSensitiveFirst(m, sid, history, ledger, t) ==
    IF CheckMessageLength(m) # "ok"
    THEN [error |-> CheckMessageLength(m), ledger |-> ledger]
    ELSE IF SensitiveInformation(m)
    THEN [error |-> "sensitive_information",
          ledger |-> RecordViolation(ledger, sid, "sensitive_information", t)]
    ELSE IF InappropriateContent(m)
    THEN [error |-> "inappropriate_content",
          ledger |-> RecordViolation(ledger, sid, "inappropriate_content", t)]
    ELSE IF ~settings.enable_general_chat /\ OffTopic(m, history)
    THEN [error |-> "off_topic",
          ledger |-> RecordViolation(ledger, sid, "off_topic", t)]
    ELSE IF CheckConversationLimits(history, t) # "ok"
    THEN [error |-> CheckConversationLimits(history, t), ledger |-> ledger]
    ELSE IF CheckRepetitivePatterns(m, history) = "repetitive_message"
    THEN [error |-> "repetitive_message",
          ledger |-> RecordViolation(ledger, sid, "repetitive_message", t)]
    ELSE IF CheckRepetitivePatterns(m, history) # "ok"
    THEN [error |-> CheckRepetitivePatterns(m, history), ledger |-> ledger]
    ELSE CheckRateLimitingPatterns(m, sid, ledger, t)

\* validate_user_message: "ok" or the check that raised ValidationError, and the
\* ledger the call leaves
ValidateUserMessage(m, sid, history, ledger, t) ==
    IF CheckMessageLength(m) # "ok"
    THEN [error |-> CheckMessageLength(m), ledger |-> ledger]
    ELSE IF InappropriateContent(m)
    THEN [error |-> "inappropriate_content",
          ledger |-> RecordViolation(ledger, sid, "inappropriate_content", t)]
    ELSE IF SensitiveInformation(m)
    THEN [error |-> "sensitive_information",
          ledger |-> RecordViolation(ledger, sid, "sensitive_information", t)]
    ELSE IF ~settings.enable_general_chat /\ OffTopic(m, history)
    THEN [error |-> "off_topic",
          ledger |-> RecordViolation(ledger, sid, "off_topic", t)]
    ELSE IF CheckConversationLimits(history, t) # "ok"
    THEN [error |-> CheckConversationLimits(history, t), ledger |-> ledger]
    ELSE IF CheckRepetitivePatterns(m, history) = "repetitive_message"
    THEN [error |-> "repetitive_message",
          ledger |-> RecordViolation(ledger, sid, "repetitive_message", t)]
    ELSE IF CheckRepetitivePatterns(m, history) # "ok"
    THEN [error |-> CheckRepetitivePatterns(m, history), ledger |-> ledger]
    ELSE CheckRateLimitingPatterns(m, sid, ledger, t)

\* variant: the response cut at the limit itself, so that the notice goes over it
ValidateAiResponseCutAtLimit(r) ==
    IF TextLen(r) > MaxResponseChars
    THEN [w |-> r.w,
          fill |-> MaxResponseChars - WordsLen(r.w) - (IF r.w = <<>> THEN 0 ELSE 1),
          cut |-> TRUE]
    ELSE r

\* validate_ai_response: the response, cut to 4800 characters and the notice when
\* it has more than 5000 (the cut falls in the padding of the texts of the model)
ValidateAiResponse(r) ==
    IF TextLen(r) > MaxResponseChars
    THEN [w |-> r.w,
          fill |-> TruncatedResponseChars - WordsLen(r.w) - (IF r.w = <<>> THEN 0 ELSE 1),
          cut |-> TRUE]
    ELSE r

-----------------------------------------------------------------------------
(* ToolDetector.  Scores are counted in units of 1/6000, so that the recency *)
(* weights k/n (n <= 6) of the context boost stay whole numbers.             *)

ScoreUnit == 6000
IntentScore == 900
NumberScore == 2400
UrgencyScore == 600
ExplicitScore == 1500
ToolThreshold == 1800
KeywordBoost == 300
MessageBoostCap == 600
ContextBoostCap == 1800
DetectorContextWindow == 6
MinNumberLength == 6
MaxNumberLength == 25
MinNumericLength == 10

\* delivery_patterns['intent_keywords']: the words of each pattern, and its word pairs
IntentPatterns ==
    << [words |-> {"track", "tracking", "trace", "status", "check"}, pairs |-> {}],
       [words |-> {"delivery", "shipment", "package", "order"}, pairs |-> {}],
       [words |-> {"locate", "find"}, pairs |-> {<<"where", "is">>}],
       [words |-> {"update", "progress", "arrival"}, pairs |-> {}] >>

\* delivery_patterns['urgency_indicators']
UrgencyPatterns ==
    << [words |-> {"urgent", "asap", "immediately", "quickly"}, pairs |-> {}],
       [words |-> {"late", "delayed", "overdue"}, pairs |-> {}],
       [words |-> {"when"}, pairs |-> {<<"what", "time">>, <<"arrival", "time">>}] >>

\* context_keywords['delivery_tracking'], the one-word ones
ContextKeywords ==
    {"shipped", "sent", "dispatched", "courier", "postal", "fedex", "ups", "dhl",
     "usps", "amazon", "expected", "estimated", "arrive"}

MatchesPattern(t, p) ==
    HasWord(t, p.words) \/ \E pr \in p.pairs : HasPair(t, pr[1], pr[2])

CountMatches(t, patterns) ==
    Cardinality({k \in 1..Len(patterns) : MatchesPattern(t, patterns[k])})

\* delivery_patterns['delivery_number_patterns'][k] on a word of text.upper()
NumberPattern(k, wd) ==
    CASE k = 1 -> wd.lead = 2 /\ wd.trail = 0 /\ wd.digits >= 8 /\ wd.digits <= 15
      [] k = 2 -> wd.lead = 0 /\ wd.trail = 0 /\ wd.digits >= 10 /\ wd.digits <= 20
      [] k = 3 -> wd.n >= 8 /\ wd.n <= 25
      [] OTHER -> /\ wd.lead >= 1 /\ wd.lead <= 3
                  /\ wd.digits >= 6 /\ wd.digits <= 15
                  /\ wd.trail <= 3

\* _validate_delivery_number
ValidateDeliveryNumber(wd) ==
    /\ wd.n >= MinNumberLength
    /\ wd.n <= MaxNumberLength
    /\ \/ wd.lead + wd.trail = 0 /\ wd.n >= MinNumericLength
       \/ wd.lead + wd.trail > 0 /\ wd.digits > 0

RECURSIVE Dedupe(_)
\* "remove duplicates while preserving order"
Dedupe(seq) ==
    IF seq = <<>> THEN <<>>
    ELSE LET rest == Dedupe(SubSeq(seq, 1, Len(seq) - 1))
             last == seq[Len(seq)]
         IN  IF \E i \in 1..Len(rest) : rest[i] = last THEN rest ELSE Append(rest, last)

\* the valid matches of pattern k, in the order of the text
NumbersOfPattern(t, k) ==
    LET ok(wd) == NumberPattern(k, wd) /\ ValidateDeliveryNumber(wd)
        hits == SelectSeq(Words(t), ok)
    IN  [i \in 1..Len(hits) |-> Upper(hits[i].s)]

\* variant: the valid matches of all patterns in the order of the text
ExtractDeliveryNumbersInTextOrder(t) ==
    LET ok(wd) == /\ \E k \in 1..4 : NumberPattern(k, wd)
                  /\ ValidateDeliveryNumber(wd)
        hits == SelectSeq(Words(t), ok)
    IN  Dedupe([i \in 1..Len(hits) |-> Upper(hits[i].s)])

\* ToolDetector._extract_delivery_numbers
ExtractDeliveryNumbers(t) ==
    Dedupe(NumbersOfPattern(t, 1) \o NumbersOfPattern(t, 2)
           \o NumbersOfPattern(t, 3) \o NumbersOfPattern(t, 4))

\* the number of context keywords that occur in a message
KeywordMatches(t) ==
    Cardinality({k \in ContextKeywords : HasWord(t, {k})})
    + (IF HasPair(t, "delivery", "date") THEN 1 ELSE 0)

\* recent_messages.index(message) + 1: the first position of an equal message
FirstIndex(seq, x) == CHOOSE i \in 1..Len(seq) :
                          seq[i] = x /\ \A j \in 1..(i - 1) : seq[j] # x

Min(a, b) == IF a <= b THEN a ELSE b

RECURSIVE BoostSum(_, _)
\* the sum of the boosts of the first k messages of the window
BoostSum(recent, k) ==
    IF k = 0 THEN 0
    ELSE LET matches == KeywordMatches(recent[k].content)
             message_age == Len(recent) - (FirstIndex(recent, recent[k]) - 1)
             boost == Min((matches * KeywordBoost * message_age) \div Len(recent),
                          MessageBoostCap)
         IN  BoostSum(recent, k - 1) + (IF matches > 0 THEN boost ELSE 0)

\* _analyze_conversation_context
AnalyzeConversationContext(history) ==
    IF history = <<>> THEN 0
    ELSE LET recent == LastN(history, DetectorContextWindow)
         IN  Min(BoostSum(recent, Len(recent)), ContextBoostCap)

\* the explicit_requests patterns that match
ExplicitRequests(t) ==
    LET ws == Words(t)
        at(i) == IF i <= Len(ws) THEN ws[i].s ELSE ""
        skip(i) == IF at(i) \in {"my", "the"} THEN i + 1 ELSE i
        track == \E i \in 1..Len(ws) :
                    at(i) = "track" /\ at(skip(i + 1)) \in {"package", "delivery", "shipment"}
        check == \E i \in 1..Len(ws) :
                    /\ at(i) = "check"
                    /\ at(skip(i + 1)) \in {"delivery", "shipment"}
                    /\ at(skip(i + 1) + 1) = "status"
        where == \E i \in 1..Len(ws) :
                    /\ at(i) = "where" /\ at(i + 1) = "is" /\ at(i + 2) = "my"
                    /\ at(i + 3) \in {"package", "order", "delivery"}
        status == HasPair(t, "delivery", "status")
    IN  (IF track THEN 1 ELSE 0) + (IF check THEN 1 ELSE 0)
        + (IF where THEN 1 ELSE 0) + (IF status THEN 1 ELSE 0)

\* the accumulated confidence_score of _analyze_delivery_tracking
ConfidenceScore(m, history) ==
    IntentScore * CountMatches(m, IntentPatterns)
    + (IF ExtractDeliveryNumbers(m) # <<>> THEN NumberScore ELSE 0)
    + UrgencyScore * CountMatches(m, UrgencyPatterns)
    + AnalyzeConversationContext(history)
    + ExplicitScore * ExplicitRequests(m)

NoDetection ==
    [tool_required |-> FALSE, tool_name |-> NoTool, confidence |-> 0,
     required_parameters |-> {}, extracted_parameters |-> <<>>]

\* variant: the tool is required only above the threshold
AnalyzeDeliveryTrackingAboveThreshold(m, history) ==
    IF ~settings.delivery_tracker_enabled THEN NoDetection
    ELSE LET score == ConfidenceScore(m, history)
             numbers == ExtractDeliveryNumbers(m)
             tool_required == score > ToolThreshold
         IN  [tool_required |-> tool_required,
              tool_name |-> IF tool_required THEN DeliveryTracker ELSE NoTool,
              confidence |-> Min(score, ScoreUnit),
              required_parameters |-> {"delivery_number"},
              extracted_parameters |->
                  IF numbers # <<>> THEN <<numbers[1]>> ELSE <<>>]

\* _analyze_delivery_tracking; extracted_parameters holds delivery_number when found
AnalyzeDeliveryTracking(m, history) ==
    IF ~settings.delivery_tracker_enabled THEN NoDetection
    ELSE LET score == ConfidenceScore(m, history)
             numbers == ExtractDeliveryNumbers(m)
             tool_required == score >= ToolThreshold
         IN  [tool_required |-> tool_required,
              tool_name |-> IF tool_required THEN DeliveryTracker ELSE NoTool,
              confidence |-> Min(score, ScoreUnit),
              required_parameters |-> {"delivery_number"},
              extracted_parameters |->
                  IF numbers # <<>> THEN <<numbers[1]>> ELSE <<>>]

\* variant: a detector that keeps count of its calls and answers only the first
AnalyzeMessageOnce(m, history) ==
    IF ~settings.tools_enabled \/ call.calls > 0 THEN NoDetection
    ELSE IF AnalyzeDeliveryTracking(m, history).tool_required
         THEN AnalyzeDeliveryTracking(m, history)
         ELSE NoDetection

\* analyze_message
AnalyzeMessage(m, history) ==
    IF ~settings.tools_enabled THEN NoDetection
    ELSE IF AnalyzeDeliveryTracking(m, history).tool_required
         THEN AnalyzeDeliveryTracking(m, history)
         ELSE NoDetection

-----------------------------------------------------------------------------
(* ConversationFlowManager *)

FlowClarificationChars == 5

\* waiting_patterns, in the order of the dictionary: the words of the vocabulary
\* that contain a pattern, and the word pairs
WaitingPatterns ==
    << [type |-> "delivery_number", words |-> {},
        pairs |-> {<<"delivery", "number">>, <<"tracking", "number">>,
                   <<"package", "id">>, <<"shipment", "id">>, <<"order", "number">>}],
       [type |-> "confirmation", words |-> {"confirm", "proceed", "continue"},
        pairs |-> {}],
       [type |-> "clarification", words |-> {"clarify", "specify"},
        pairs |-> {<<"more", "details">>, <<"which", "one">>}],
       [type |-> "choice", words |-> {"choose", "select", "option", "preference"},
        pairs |-> {}] >>

PositiveWords ==
    {"yes", "yep", "yeah", "sure", "ok", "okay", "confirm", "proceed", "correct",
     "right", "agree"}
NegativeWords == {"no", "nope", "cancel", "stop", "wrong", "incorrect", "disagree"}
ChoiceWords ==
    {"1", "2", "3", "4", "5", "6", "7", "8", "9", "a", "b", "c", "d", "e",
     "first", "second", "third", "fourth", "fifth"}
CompletionWords == {"thanks", "goodbye", "bye", "done", "finished"}

\* msg matches one of the patterns of group k (the '?' fallback is group 5)
MatchesGroup(t, k) ==
    IF k <= Len(WaitingPatterns)
    THEN \/ MatchesPattern(t, WaitingPatterns[k])
         \/ k = 2 /\ \E i \in 1..(Len(Words(t)) - 2) :
                        /\ Words(t)[i].s = "yes" /\ Words(t)[i + 1].s = "or"
                        /\ Words(t)[i + 2].s = "no"
    ELSE HasQuestionMark(t)

\* _get_last_ai_message: its position in the history, 0 when there is none
LastAiIndex(history) ==
    IF \E i \in 1..Len(history) : history[i].role = "assistant"
    THEN CHOOSE i \in 1..Len(history) :
            /\ history[i].role = "assistant"
            /\ \A j \in (i + 1)..Len(history) : history[j].role # "assistant"
    ELSE 0

\* _analyze_ai_request: the first group that matches, 0 when none does
AnalyzeAiRequest(t) ==
    IF \E k \in 1..5 : MatchesGroup(t, k)
    THEN CHOOSE k \in 1..5 : MatchesGroup(t, k) /\ \A j \in 1..(k - 1) : ~MatchesGroup(t, j)
    ELSE 0

GroupType(k) == IF k <= Len(WaitingPatterns) THEN WaitingPatterns[k].type ELSE "general"

\* delivery_number_patterns[k] of the flow manager on a word of text.upper()
FlowNumberPattern(k, wd) ==
    CASE k = 1 -> wd.lead = 2 /\ wd.trail = 0 /\ wd.digits >= 8 /\ wd.digits <= 12
      [] k = 2 -> wd.lead = 0 /\ wd.trail = 0 /\ wd.digits >= 10 /\ wd.digits <= 15
      [] OTHER -> wd.n >= 8 /\ wd.n <= 20

FlowNumbersOfPattern(t, k) ==
    LET ok(wd) == FlowNumberPattern(k, wd)
        hits == SelectSeq(Words(t), ok)
    IN  [i \in 1..Len(hits) |-> Upper(hits[i].s)]

\* ConversationFlowManager._extract_delivery_numbers
FlowExtractDeliveryNumbers(t) ==
    Dedupe(FlowNumbersOfPattern(t, 1) \o FlowNumbersOfPattern(t, 2)
           \o FlowNumbersOfPattern(t, 3))

\* _analyze_user_response: has_requested_info and extracted_info
AnalyzeUserResponse(m, k) ==
    LET none == [has_requested_info |-> FALSE, extracted_info |-> "none"]
        got(x) == [has_requested_info |-> TRUE, extracted_info |-> x]
    IN  CASE k = 1 -> IF FlowExtractDeliveryNumbers(m) # <<>>
                      THEN got(FlowExtractDeliveryNumbers(m)[1]) ELSE none
          [] k = 2 -> IF HasWord(m, PositiveWords) THEN got("yes")
                      ELSE IF HasWord(m, NegativeWords) THEN got("no") ELSE none
          [] k = 3 -> IF TextLen(m) > FlowClarificationChars THEN got("text") ELSE none
          [] k = 4 -> IF HasWord(m, ChoiceWords) THEN got("option") ELSE none
          [] OTHER -> IF TextLen(m) > 0 THEN got("text") ELSE none

\* variant: every assistant message that holds the request is counted
CountAttemptsAnywhere(history, i, k) ==
    Cardinality({j \in 1..i : /\ history[j].role = "assistant"
                              /\ MatchesGroup(history[j].content, k)})

RECURSIVE CountAttempts(_, _, _)
\* _count_request_attempts, walking back from position i
CountAttempts(history, i, k) ==
    IF i = 0 THEN 0
    ELSE IF history[i].role # "assistant" THEN CountAttempts(history, i - 1, k)
    ELSE IF MatchesGroup(history[i].content, k)
         THEN 1 + CountAttempts(history, i - 1, k)
         ELSE 0

\* _should_complete_conversation
ShouldCompleteConversation(history, m) ==
    \/ HasWord(m, CompletionWords)
    \/ HasPair(m, "thank", "you")
    \/ Len(history) >= MaxConversationLength

FlowState(state, waiting, attempts, info) ==
    [state |-> state, awaiting_input |-> state = "waiting_for_input",
     waiting_for |-> waiting, attempts |-> attempts, extracted_info |-> info]

\* analyze_conversation_state, when nothing inside it raises
AnalyzeConversationState(history, m) ==
    IF history = <<>> \/ LastAiIndex(history) = 0
    THEN FlowState("initial", "none", 0, "none")
    ELSE LET k == AnalyzeAiRequest(history[LastAiIndex(history)].content)
         IN  IF k # 0
             THEN IF AnalyzeUserResponse(m, k).has_requested_info
                  THEN FlowState("ongoing", "none", 0,
                                 AnalyzeUserResponse(m, k).extracted_info)
                  ELSE FlowState("waiting_for_input", GroupType(k),
                                 CountAttempts(history, Len(history), k), "none")
             ELSE IF ShouldCompleteConversation(history, m)
                  THEN FlowState("completed", "none", 0, "none")
                  ELSE FlowState("ongoing", "none", 0, "none")

\* variant: an internal failure reported as an ordinary ONGOING state
FlowErrorAsOngoing == FlowState("ongoing", "none", 0, "none")

\* the except branch of analyze_conversation_state
FlowError == FlowState("error", "none", 0, "none")

-----------------------------------------------------------------------------
(* SessionManager: the history store *)

NoSession ==
    [exists |-> FALSE, created_at |-> 0, last_activity |-> 0, is_active |-> FALSE,
     message_count |-> 0, total_input_tokens |-> 0, total_output_tokens |-> 0]

\* the ChatSession row get_or_create_session adds
NewSession(t) ==
    [exists |-> TRUE, created_at |-> t, last_activity |-> t, is_active |-> TRUE,
     message_count |-> 0, total_input_tokens |-> 0, total_output_tokens |-> 0]

\* get_session: the row of the identifier, or None (NoSession) when there is none
GetSession(rows, sid) == IF rows[sid].exists THEN rows[sid] ELSE NoSession

\* the row save_user_message adds
UserMessage(m, t) ==
    [role |-> "user", content |-> m, timestamp |-> t, input_tokens |-> 0,
     output_tokens |-> 0, tool_name |-> NoTool]

\* the row save_ai_message adds
AiMessage(m, t, input_tokens, output_tokens, tool_name) ==
    [role |-> "assistant", content |-> m, timestamp |-> t,
     input_tokens |-> input_tokens, output_tokens |-> output_tokens,
     tool_name |-> tool_name]

\* the session row after save_user_message ("if session:")
SessionAfterUserMessage(s, t) ==
    IF s.exists
    THEN [s EXCEPT !.message_count = @ + 1, !.last_activity = t]
    ELSE s

\* a save_ai_message that adds the tokens but does not count the message
SessionAfterAiMessageUncounted(s, t, input_tokens, output_tokens) ==
    IF s.exists
    THEN [s EXCEPT !.total_input_tokens = @ + input_tokens,
                   !.total_output_tokens = @ + output_tokens,
                   !.last_activity = t]
    ELSE s

\* the session row after save_ai_message ("if session:")
SessionAfterAiMessage(s, t, input_tokens, output_tokens) ==
    IF s.exists
    THEN [s EXCEPT !.message_count = @ + 1,
                   !.total_input_tokens = @ + input_tokens,
                   !.total_output_tokens = @ + output_tokens,
                   !.last_activity = t]
    ELSE s

RECURSIVE OrderByTimestamp(_)
\* order_by(DBMessage.timestamp.asc()): rows of equal timestamp keep their
\* insertion order
OrderByTimestamp(rows) ==
    IF rows = <<>> THEN <<>>
    ELSE LET init == OrderByTimestamp(SubSeq(rows, 1, Len(rows) - 1))
             last == rows[Len(rows)]
             k == Cardinality({i \in 1..Len(init) : init[i].timestamp <= last.timestamp})
         IN  SubSeq(init, 1, k) \o <<last>> \o SubSeq(init, k + 1, Len(init))

\* a history read that orders by timestamp descending
ConversationHistoryNewestFirst(rows) ==
    [i \in 1..Len(rows) |-> OrderByTimestamp(rows)[Len(rows) + 1 - i]]

\* get_conversation_history(session_id): the rows as ConversationMessage objects
ConversationHistory(rows) == OrderByTimestamp(rows)

RECURSIVE SumField(_, _)
SumField(rows, f) ==
    IF rows = <<>> THEN 0 ELSE rows[1][f] + SumField(Tail(rows), f)


-----------------------------------------------------------------------------
(* Single calls of the functions of the core: the arguments and the result *)

NoCall ==
    [op |-> "none", calls |-> 0, message |-> Text(<<>>), history |-> <<>>,
     response |-> Text(<<>>), ledger |-> NoViolations, result |-> "none",
     previous |-> "none"]
-----------------------------------------------------------------------------
(* ChatManager *)

NoToolResponse ==
    [present |-> FALSE, tool_name |-> NoTool, parameters |-> <<>>,
     result |-> "none", success |-> FALSE, error |-> "none"]

NoResponse ==
    [present |-> FALSE, response |-> Text(<<>>), input_tokens |-> 0,
     output_tokens |-> 0, tool_called |-> FALSE, tool_name |-> NoTool]

NoSnapshot == [sessions |-> <<>>, messages |-> <<>>, error_log |-> <<>>]

IdleTurn ==
    [pc |-> "idle", session_id |-> "none", message |-> Text(<<>>),
     history |-> <<>>, flow_state |-> FlowState("initial", "none", 0, "none"),
     detection |-> NoDetection, tool_response |-> NoToolResponse,
     tool_called |-> FALSE, tool_name |-> NoTool,
     llm_invoked |-> FALSE, llm_messages |-> <<>>,
     ai_response |-> Text(<<>>), input_tokens |-> 0, output_tokens |-> 0,
     stages |-> <<>>, error |-> "none", reason |-> "none",
     response |-> NoResponse, pre |-> NoSnapshot]

\* a fault is injected: a store operation, the provider, a tool or the flow
\* analysis raises (at most MaxFaults times in a run)
Fault == faults < MaxFaults /\ faults' = faults + 1
NoFault == UNCHANGED faults

FreePcs == {"idle", "returned", "failed", "cleared"}
Quiet == \A t \in Slots : turn[t].pc \in FreePcs

\* what tool.execute can return, and the errors it can raise
ToolResults == {"in_transit"}
ToolFailures == {"tool_timeout"}
\* what can raise inside _generate_llm_response: before the provider is called
\* (context assembly, token counting), or the provider itself
LlmFailures == {"count_tokens", "provider"}

\* a failure of _generate_llm_response that is raised as it is, not as LLMError
GenerationErrorUnwrapped(cause) == "ChatBotException"

\* _generate_llm_response's "except Exception": the error raised for a cause
GenerationError(cause) == "LLMError"

\* the system message without the outcome of a tool that failed
BuildSystemMessageWithoutFailure(tool_response, flow_state) ==
    [decline_general_chat |-> ~settings.enable_general_chat,
     available_tools |-> registry,
     tool_context |->
        IF tool_response.present /\ tool_response.success
        THEN <<"executed successfully", tool_response.tool_name,
               tool_response.result>>
        ELSE <<>>,
     waiting_for |-> IF flow_state.awaiting_input THEN flow_state.waiting_for
                     ELSE "none"]

\* _build_system_message: the parts of the system message
BuildSystemMessage(tool_response, flow_state) ==
    [decline_general_chat |-> ~settings.enable_general_chat,
     available_tools |-> registry,
     tool_context |->
        IF ~tool_response.present THEN <<>>
        ELSE IF tool_response.success
             THEN <<"executed successfully", tool_response.tool_name,
                    tool_response.result>>
             ELSE <<"execution failed", tool_response.tool_name,
                    tool_response.error>>,
     waiting_for |-> IF flow_state.awaiting_input THEN flow_state.waiting_for
                     ELSE "none"]

\* variant: the context built from the oldest messages of the history
PrepareConversationContextOldest(m, history, tool_response, flow_state) ==
    LET oldest == SubSeq(history, 1, Min(Len(history), ContextWindow))
    IN  <<[role |-> "system",
           content |-> BuildSystemMessage(tool_response, flow_state)]>>
        \o [i \in 1..Len(oldest) |->
               [role |-> IF oldest[i].role = "user" THEN "user" ELSE "assistant",
                content |-> oldest[i].content]]
        \o <<[role |-> "user", content |-> m]>>

\* _prepare_conversation_context
PrepareConversationContext(m, history, tool_response, flow_state) ==
    LET recent == LastN(history, ContextWindow)
    IN  <<[role |-> "system",
           content |-> BuildSystemMessage(tool_response, flow_state)]>>
        \o [i \in 1..Len(recent) |->
               [role |-> IF recent[i].role = "user" THEN "user" ELSE "assistant",
                content |-> recent[i].content]]
        \o <<[role |-> "user", content |-> m]>>

RECURSIVE ContextTokens(_)
\* count_tokens(_format_messages_for_token_counting(messages)): one token for
\* each role, one for each part of the system message
ContextTokens(ctx) ==
    IF ctx = <<>> THEN 0
    ELSE (IF ctx[1].role = "system"
          THEN 3 + (IF ctx[1].content.available_tools # {} THEN 1 ELSE 0)
                 + (IF ctx[1].content.tool_context # <<>> THEN 1 ELSE 0)
                 + (IF ctx[1].content.waiting_for # "none" THEN 1 ELSE 0)
          ELSE 1 + CountTokens(ctx[1].content))
         + ContextTokens(Tail(ctx))

\* a process_message that never runs the tool stage
AfterDetectionWithoutTools(detection) == "generate_llm_response"

\* the stage of process_message that follows tool detection
AfterDetection(detection) ==
    IF detection.tool_required THEN "handle_tool_execution"
    ELSE "generate_llm_response"

\* the exception classes of utils.exceptions that process_message meets:
\* ChatBotException and the classes derived from it
ChatBotExceptions ==
    {"ChatBotException", "ValidationError", "LLMError", "DatabaseError", "ToolError"}

\* variant: the except block re-raises whatever it caught
RaisedToCallerUnwrapped(e) == e

\* the end of process_message's except block: a ChatBotException is re-raised,
\* anything else is wrapped in a ChatBotException
RaisedToCaller(e) == IF e \in ChatBotExceptions THEN e ELSE "ChatBotException"

\* process_message's "except Exception" is entered with error e
Raise(t, stage, error, reason) ==
    turn' = [turn EXCEPT ![t].pc = "except",
                         ![t].stages = Append(@, stage),
                         ![t].error = error,
                         ![t].reason = reason]

\* a request arrives: get_chat_manager builds a ChatManager (and with it a new
\* GuardrailsManager), and process_message is called on it
Begin(t, sid, m) ==
    /\ turn[t].pc \in FreePcs
    /\ nturns + nclears < MaxRequests
    /\ nturns' = nturns + 1
    /\ violation_history' = [violation_history EXCEPT ![t] = NoViolations]
    /\ turn' = [turn EXCEPT ![t] =
                  [IdleTurn EXCEPT !.pc = "get_or_create_session",
                                   !.session_id = sid,
                                   !.message = m,
                                   !.pre = [sessions |-> sessions,
                                            messages |-> messages,
                                            error_log |-> error_log]]]
    /\ UNCHANGED <<call, settings, registry, now, ticks, sessions, messages, error_log,
                   nclears, last_clear, faults>>

\* a get_or_create_session that starts a new row for every request
SessionAlwaysNew(s, t) == NewSession(t)

\* variant: get_or_create_session that resets the counter of the row it finds
SessionForResettingCount(s, t) ==
    IF s.exists THEN [s EXCEPT !.message_count = 0] ELSE NewSession(t)

\* get_or_create_session: the row found, or the row added for a new identifier
SessionFor(s, t) == IF s.exists THEN s ELSE NewSession(t)

\* Step 1a: session_manager.get_or_create_session
GetOrCreateSession(t) ==
    /\ turn[t].pc = "get_or_create_session"
    /\ \/ /\ sessions' = [sessions EXCEPT ![turn[t].session_id] = SessionFor(@, now)]
          /\ turn' = [turn EXCEPT ![t].pc = "get_conversation_history",
                                  ![t].stages = Append(@, "get_or_create_session")]
          /\ NoFault
       \/ /\ Fault
          /\ Raise(t, "get_or_create_session", "DatabaseError", "get_or_create_session")
          /\ UNCHANGED sessions
    /\ UNCHANGED <<call, settings, registry, now, ticks, messages, error_log,
                   violation_history, nturns, nclears, last_clear>>

\* Step 1b: session_manager.get_conversation_history; it turns SQLAlchemyError
\* into DatabaseError, and any other exception (building a ConversationMessage
\* from a row) leaves it as it is
GetConversationHistory(t) ==
    /\ turn[t].pc = "get_conversation_history"
    /\ \/ /\ turn' = [turn EXCEPT ![t].pc = "validate_user_message",
                                  ![t].stages = Append(@, "get_conversation_history"),
                                  ![t].history =
                                      ConversationHistory(messages[turn[t].session_id])]
          /\ NoFault
       \/ /\ Fault
          /\ Raise(t, "get_conversation_history", "DatabaseError", "get_conversation_history")
       \/ /\ Fault
          /\ Raise(t, "get_conversation_history", "Exception", "get_conversation_history")
    /\ UNCHANGED <<call, settings, registry, now, ticks, sessions, messages, error_log,
                   violation_history, nturns, nclears, last_clear>>

\* Step 2: guardrails.validate_user_message
ValidateInput(t) ==
    /\ turn[t].pc = "validate_user_message"
    /\ LET v == ValidateUserMessage(turn[t].message, turn[t].session_id,
                                    turn[t].history, violation_history[t], now)
       IN  /\ violation_history' = [violation_history EXCEPT ![t] = v.ledger]
           /\ IF v.error = "ok"
              THEN turn' = [turn EXCEPT ![t].pc = "save_user_message",
                                        ![t].stages = Append(@, "validate_user_message")]
              ELSE Raise(t, "validate_user_message", "ValidationError", v.error)
    /\ UNCHANGED <<call, settings, registry, now, ticks, sessions, messages, error_log,
                   nturns, nclears, last_clear, faults>>

\* Step 3: session_manager.save_user_message.  When the session row is gone (a
\* clear_session ran since step 1) the message row is added without a count to
\* update ("if session:"); whether the commit then fails depends on the schema
\* (database/models.py, a foreign key that the database enforces), so both
\* outcomes are possible.
SaveUserMessage(t) ==
    /\ turn[t].pc = "save_user_message"
    /\ \/ /\ messages' = [messages EXCEPT ![turn[t].session_id] =
                             Append(@, UserMessage(turn[t].message, now))]
          /\ sessions' = [sessions EXCEPT ![turn[t].session_id] =
                             SessionAfterUserMessage(@, now)]
          /\ turn' = [turn EXCEPT ![t].pc = "analyze_conversation_state",
                                  ![t].stages = Append(@, "save_user_message")]
          /\ NoFault
       \/ /\ Fault
          /\ Raise(t, "save_user_message", "DatabaseError", "save_user_message")
          /\ UNCHANGED <<sessions, messages>>
       \/ /\ ~sessions[turn[t].session_id].exists
          /\ NoFault
          /\ Raise(t, "save_user_message", "DatabaseError", "save_user_message")
          /\ UNCHANGED <<sessions, messages>>
    /\ UNCHANGED <<call, settings, registry, now, ticks, error_log, violation_history,
                   nturns, nclears, last_clear>>

\* Step 4: conversation_flow.analyze_conversation_state (it catches what it raises)
AnalyzeFlow(t) ==
    /\ turn[t].pc = "analyze_conversation_state"
    /\ \E raises \in BOOLEAN :
          /\ IF raises THEN Fault ELSE NoFault
          /\ turn' = [turn EXCEPT ![t].pc = "analyze_message",
                                  ![t].stages = Append(@, "analyze_conversation_state"),
                                  ![t].flow_state =
                                      IF raises THEN FlowError
                                      ELSE AnalyzeConversationState(turn[t].history,
                                                                    turn[t].message)]
    /\ UNCHANGED <<call, settings, registry, now, ticks, sessions, messages, error_log,
                   violation_history, nturns, nclears, last_clear>>

\* Step 5: tool_detector.analyze_message
DetectTool(t) ==
    /\ turn[t].pc = "analyze_message"
    /\ LET d == AnalyzeMessage(turn[t].message, turn[t].history)
       IN  turn' = [turn EXCEPT ![t].pc = AfterDetection(d),
                                ![t].stages = Append(@, "analyze_message"),
                                ![t].detection = d]
    /\ UNCHANGED <<call, settings, registry, now, ticks, sessions, messages, error_log,
                   violation_history, nturns, nclears, last_clear, faults>>

\* _handle_tool_execution when tool_registry.get_tool finds no tool: the
\* ToolError raised at line 219 is caught at line 240
ToolNotFound(detection) ==
    [present |-> TRUE, tool_name |-> detection.tool_name,
     parameters |-> detection.extracted_parameters,
     result |-> "none", success |-> FALSE, error |-> "tool_not_found"]

\* _handle_tool_execution when tool.execute raises
ToolFailed(detection, e) ==
    [present |-> TRUE, tool_name |-> detection.tool_name,
     parameters |-> detection.extracted_parameters,
     result |-> "none", success |-> FALSE, error |-> e]

\* _handle_tool_execution when tool.execute returns
ToolSucceeded(detection, r) ==
    [present |-> TRUE, tool_name |-> detection.tool_name,
     parameters |-> detection.extracted_parameters,
     result |-> r, success |-> TRUE, error |-> "none"]

\* Step 6: _handle_tool_execution, then tool_called and tool_name are set
HandleToolExecution(t) ==
    /\ turn[t].pc = "handle_tool_execution"
    /\ \E out \in
            (IF turn[t].detection.tool_name \in registry
             THEN {ToolSucceeded(turn[t].detection, r) : r \in ToolResults}
                  \cup {ToolFailed(turn[t].detection, e) : e \in ToolFailures}
             ELSE {ToolNotFound(turn[t].detection)}) :
          /\ IF out.error \in ToolFailures THEN Fault ELSE NoFault
          /\ turn' = [turn EXCEPT ![t].pc = "generate_llm_response",
                                  ![t].stages = Append(@, "handle_tool_execution"),
                                  ![t].tool_response = out,
                                  ![t].tool_called = TRUE,
                                  ![t].tool_name = turn[t].detection.tool_name]
    /\ UNCHANGED <<call, settings, registry, now, ticks, sessions, messages, error_log,
                   violation_history, nturns, nclears, last_clear>>

\* the replies the provider can give
ReplyOk == Text(<<"ok">>)
ReplyAsk == Text(<<"what", "is", "your", "delivery", "number?">>)
ReplyLong == Padded(<<"ok">>, MaxResponseChars)
LLMReplies == {ReplyOk, ReplyAsk}

\* Step 7: _generate_llm_response; whatever raises inside it becomes LLMError
GenerateLlmResponse(t) ==
    /\ turn[t].pc = "generate_llm_response"
    /\ LET ctx == PrepareConversationContext(turn[t].message, turn[t].history,
                                             turn[t].tool_response, turn[t].flow_state)
       IN  \/ /\ \E reply \in LLMReplies :
                   turn' = [turn EXCEPT ![t].pc = "validate_ai_response",
                                        ![t].stages = Append(@, "generate_llm_response"),
                                        ![t].llm_invoked = TRUE,
                                        ![t].llm_messages = ctx,
                                        ![t].ai_response = reply,
                                        ![t].input_tokens = ContextTokens(ctx),
                                        ![t].output_tokens = CountTokens(reply)]
              /\ NoFault
           \/ /\ Fault
              /\ turn' = [turn EXCEPT ![t].pc = "except",
                                      ![t].stages = Append(@, "generate_llm_response"),
                                      ![t].llm_invoked = TRUE,
                                      ![t].llm_messages = ctx,
                                      ![t].error = GenerationError("provider"),
                                      ![t].reason = "provider"]
           \/ /\ Fault
              /\ Raise(t, "generate_llm_response", GenerationError("count_tokens"),
                       "count_tokens")
    /\ UNCHANGED <<call, settings, registry, now, ticks, sessions, messages, error_log,
                   violation_history, nturns, nclears, last_clear>>

\* Step 8: guardrails.validate_ai_response (it never raises)
ValidateOutput(t) ==
    /\ turn[t].pc = "validate_ai_response"
    /\ turn' = [turn EXCEPT ![t].pc = "save_ai_message",
                            ![t].stages = Append(@, "validate_ai_response"),
                            ![t].ai_response = ValidateAiResponse(@)]
    /\ UNCHANGED <<call, settings, registry, now, ticks, sessions, messages, error_log,
                   violation_history, nturns, nclears, last_clear, faults>>

\* Step 9: session_manager.save_ai_message (as step 3 when the session row is gone)
SaveAiMessage(t) ==
    /\ turn[t].pc = "save_ai_message"
    /\ \/ /\ messages' = [messages EXCEPT ![turn[t].session_id] =
                             Append(@, AiMessage(turn[t].ai_response, now,
                                                 turn[t].input_tokens,
                                                 turn[t].output_tokens,
                                                 turn[t].tool_name))]
          /\ sessions' = [sessions EXCEPT ![turn[t].session_id] =
                             SessionAfterAiMessage(@, now, turn[t].input_tokens,
                                                   turn[t].output_tokens)]
          /\ turn' = [turn EXCEPT ![t].pc = "update_session_activity",
                                  ![t].stages = Append(@, "save_ai_message")]
          /\ NoFault
       \/ /\ Fault
          /\ Raise(t, "save_ai_message", "DatabaseError", "save_ai_message")
          /\ UNCHANGED <<sessions, messages>>
       \/ /\ ~sessions[turn[t].session_id].exists
          /\ NoFault
          /\ Raise(t, "save_ai_message", "DatabaseError", "save_ai_message")
          /\ UNCHANGED <<sessions, messages>>
    /\ UNCHANGED <<call, settings, registry, now, ticks, error_log, violation_history,
                   nturns, nclears, last_clear>>

\* the ChatResponse process_message returns
ChatResponse(tn) ==
    [present |-> TRUE, response |-> tn.ai_response,
     input_tokens |-> tn.input_tokens, output_tokens |-> tn.output_tokens,
     tool_called |-> tn.tool_called, tool_name |-> tn.tool_name]

\* Step 10: session_manager.update_session_activity, then the return
UpdateSessionActivity(t) ==
    /\ turn[t].pc = "update_session_activity"
    /\ \/ /\ sessions' = [sessions EXCEPT ![turn[t].session_id] =
                             IF @.exists THEN [@ EXCEPT !.last_activity = now] ELSE @]
          /\ turn' = [turn EXCEPT ![t].pc = "returned",
                                  ![t].stages = Append(@, "update_session_activity"),
                                  ![t].response = ChatResponse(turn[t])]
          /\ NoFault
       \/ /\ Fault
          /\ Raise(t, "update_session_activity", "DatabaseError", "update_session_activity")
          /\ UNCHANGED sessions
    /\ UNCHANGED <<call, settings, registry, now, ticks, messages, error_log,
                   violation_history, nturns, nclears, last_clear>>

\* the ErrorLog row log_error adds
ErrorLogRow(reason, t) == [error_message |-> reason, timestamp |-> t]

\* process_message's except block: log_error (its own failure is swallowed),
\* then the error is raised to the caller
LogError(t) ==
    /\ turn[t].pc = "except"
    /\ \/ /\ error_log' = [error_log EXCEPT ![turn[t].session_id] =
                              Append(@, ErrorLogRow(turn[t].reason, now))]
          /\ NoFault
       \/ /\ Fault
          /\ UNCHANGED error_log
    /\ turn' = [turn EXCEPT ![t].pc = "failed",
                            ![t].error = RaisedToCaller(@)]
    /\ UNCHANGED <<call, settings, registry, now, ticks, sessions, messages,
                   violation_history, nturns, nclears, last_clear>>

NoClear == [session_id |-> "none", success |-> FALSE]

\* variant: a clear that deletes the session row and leaves its messages behind
ClearSessionKeepingMessages(t, sid) ==
    /\ turn[t].pc \in FreePcs
    /\ nclears < MaxClears
    /\ nturns + nclears < MaxRequests
    /\ nclears' = nclears + 1
    /\ last_clear' = [session_id |-> sid, success |-> sessions[sid].exists]
    /\ sessions' = [sessions EXCEPT ![sid] = NoSession]
    /\ turn' = [turn EXCEPT ![t] = [IdleTurn EXCEPT !.pc = "cleared",
                                                    !.session_id = sid]]
    /\ UNCHANGED <<call, settings, registry, now, ticks, messages, error_log,
                   violation_history, nturns, faults>>

\* a clear request arrives: ChatManager.clear_session ->
\* session_manager.clear_session, which reports whether a session row was deleted
ClearSession(t, sid) ==
    /\ turn[t].pc \in FreePcs
    /\ nclears < MaxClears
    /\ nturns + nclears < MaxRequests
    /\ nclears' = nclears + 1
    /\ last_clear' = [session_id |-> sid, success |-> sessions[sid].exists]
    /\ messages' = [messages EXCEPT ![sid] = <<>>]
    /\ sessions' = [sessions EXCEPT ![sid] = NoSession]
    /\ turn' = [turn EXCEPT ![t] = [IdleTurn EXCEPT !.pc = "cleared",
                                                    !.session_id = sid]]
    /\ UNCHANGED <<call, settings, registry, now, ticks, error_log, violation_history,
                   nturns, faults>>

\* datetime.utcnow() advances between two requests
Tick(d) ==
    /\ Quiet
    /\ ticks < MaxTicks
    /\ ticks' = ticks + 1
    /\ now' = now + d
    /\ UNCHANGED <<call, settings, registry, sessions, messages, error_log,
                   violation_history, turn, nturns, nclears, last_clear, faults>>

TickSteps == {SessionTimeoutMinutes, SessionTimeoutMinutes + 1}

\* the messages clients send
MsgHelp == Text(<<"help">>)
MsgHi == Text(<<"hi">>)
MsgTrack == Text(<<"Track", "my", "package", "AB1234567890">>)
MsgJoke == Text(<<"tell", "me", "a", "joke", "about", "cats">>)
MsgSpam == Text(<<"spam">>)
MsgLong == Padded(<<"help">>, MaxInputLength)
UserMessages == {MsgHelp, MsgTrack, MsgSpam, MsgLong}

\* Settings (config.py) and the tools main.py registers at startup
SettingsChoices ==
    {[enable_general_chat |-> TRUE, content_filter_enabled |-> TRUE,
      tools_enabled |-> TRUE, delivery_tracker_enabled |-> TRUE]}
RegistryChoices == {{}, {DeliveryTracker}}

Init ==
    /\ settings \in SettingsChoices
    /\ registry \in RegistryChoices
    /\ now = 0
    /\ ticks = 0
    /\ sessions = [s \in SessionIds |-> NoSession]
    /\ messages = [s \in SessionIds |-> <<>>]
    /\ error_log = [s \in SessionIds |-> <<>>]
    /\ violation_history = [t \in Slots |-> NoViolations]
    /\ turn = [t \in Slots |-> IdleTurn]
    /\ nturns = 0
    /\ nclears = 0
    /\ last_clear = NoClear
    /\ faults = 0
    /\ call = NoCall

\* one request at a time
SendMessage == \E sid \in SessionIds, m \in UserMessages : Quiet /\ Begin(1, sid, m)
Clear == \E sid \in SessionIds : Quiet /\ ClearSession(1, sid)
Step ==
    \/ GetOrCreateSession(1)
    \/ GetConversationHistory(1)
    \/ ValidateInput(1)
    \/ SaveUserMessage(1)
    \/ AnalyzeFlow(1)
    \/ DetectTool(1)
    \/ HandleToolExecution(1)
    \/ GenerateLlmResponse(1)
    \/ ValidateOutput(1)
    \/ SaveAiMessage(1)
    \/ UpdateSessionActivity(1)
    \/ LogError(1)
Advance == \E d \in TickSteps : Tick(d)

Next == SendMessage \/ Clear \/ Step \/ Advance

Spec == Init /\ [][Next]_vars

-----------------------------------------------------------------------------
(* Calls of single functions, with arguments drawn from small sets; a run    *)
(* makes one call, and then the call that follows it up.                    *)

\* responses of the provider around the two lengths validate_ai_response knows
Responses ==
    {ReplyOk, ReplyAsk, ReplyLong,
     Padded(<<"ok">>, TruncatedResponseChars - 3),
     Padded(<<"ok">>, MaxResponseChars - 3),
     Padded(<<"ok">>, MaxResponseChars - 2),
     Padded(<<>>, MaxResponseChars),
     Padded(<<>>, MaxResponseChars + 1),
     Padded(<<"what", "is", "your", "delivery", "number?">>, 2 * MaxResponseChars)}

\* guardrails.validate_ai_response(response, ...)
CallValidateAiResponse ==
    /\ call.calls = 0
    /\ \E r \in Responses :
          call' = [NoCall EXCEPT !.op = "validate_ai_response",
                                 !.calls = 1,
                                 !.response = r,
                                 !.result = ValidateAiResponse(r)]
    /\ UNCHANGED <<settings, registry, now, ticks, sessions, messages, error_log,
                   violation_history, turn, nturns, nclears, last_clear, faults>>

\* guardrails.validate_ai_response applied to what it returned
RevalidateAiResponse ==
    /\ call.op = "validate_ai_response"
    /\ call.calls = 1
    /\ call' = [call EXCEPT !.calls = 2,
                            !.response = call.result,
                            !.result = ValidateAiResponse(call.result)]
    /\ UNCHANGED <<settings, registry, now, ticks, sessions, messages, error_log,
                   violation_history, turn, nturns, nclears, last_clear, faults>>

\* messages for the detector: with one identifier, with two, with a token that
\* passes _validate_delivery_number and matches no pattern, and with none
MsgLowerNumber == Text(<<"ab1234567890">>)
MsgTwoNumbers == Text(<<"1234567890", "AB1234567890">>)
MsgShortCode == Text(<<"AB1234">>)
MsgShortCodeInWords == Text(<<"my", "code", "is", "AB1234">>)
MsgNineDigits == Text(<<"123456789">>)
MsgDelivery == Text(<<"delivery">>)
MsgWhere == Text(<<"where", "is", "my", "order">>)
\* messages at the threshold of the score (two intent patterns) and over its cap
MsgDeliveryUpdate == Text(<<"delivery", "update">>)
MsgUrgentTrack == Text(<<"urgent", "Track", "my", "package", "AB1234567890">>)
DetectorMessages ==
    {MsgTrack, MsgLowerNumber, MsgTwoNumbers, MsgShortCode, MsgShortCodeInWords,
     MsgNineDigits, MsgDelivery, MsgWhere, MsgHelp, MsgHi, MsgJoke,
     MsgDeliveryUpdate, MsgUrgentTrack}

\* histories a call can be given
HistoryNone == <<>>
HistoryChat == <<UserMessage(MsgHi, 0), AiMessage(ReplyOk, 0, 4, 1, NoTool)>>
HistoryAsked == <<UserMessage(MsgHelp, 0), AiMessage(ReplyAsk, 0, 4, 5, NoTool)>>
HistoryTracked ==
    <<UserMessage(MsgTrack, 0),
      AiMessage(Text(<<"your", "package", "was", "shipped">>), 0, 8, 4, DeliveryTracker)>>
Histories == {HistoryNone, HistoryChat, HistoryAsked, HistoryTracked}

\* tool_detector.analyze_message(user_message, conversation_history)
CallAnalyzeMessage ==
    /\ call.calls = 0
    /\ \E m \in DetectorMessages, h \in Histories :
          call' = [NoCall EXCEPT !.op = "analyze_message",
                                 !.calls = 1,
                                 !.message = m,
                                 !.history = h,
                                 !.result = AnalyzeMessage(m, h)]
    /\ UNCHANGED <<settings, registry, now, ticks, sessions, messages, error_log,
                   violation_history, turn, nturns, nclears, last_clear, faults>>

\* the same call made once more on the same detector
RepeatAnalyzeMessage ==
    /\ call.op = "analyze_message"
    /\ call.calls = 1
    /\ call' = [call EXCEPT !.calls = 2,
                            !.previous = call.result,
                            !.result = AnalyzeMessage(call.message, call.history)]
    /\ UNCHANGED <<settings, registry, now, ticks, sessions, messages, error_log,
                   violation_history, turn, nturns, nclears, last_clear, faults>>

\* replies to a request: identifiers, plain words, and an empty text
MsgNumber == Text(<<"AB1234567890">>)
MsgTomorrow == Text(<<"I", "will", "check", "tomorrow">>)
FlowMessages ==
    {MsgNumber, MsgTrack, MsgLowerNumber, MsgTwoNumbers, MsgNineDigits,
     MsgTomorrow, MsgHelp, MsgHi, MsgJoke, Text(<<>>)}

\* histories with repeated requests: the delivery number asked for, something
\* else said, and the number asked for twice more; a bare question after a
\* request for the number, and the other way round
ReplyQuestion == Text(<<"number?">>)
HistoryAskedAgain ==
    HistoryAsked
    \o <<UserMessage(MsgHi, 0), AiMessage(ReplyOk, 0, 4, 1, NoTool),
         UserMessage(MsgHelp, 0), AiMessage(ReplyAsk, 0, 4, 5, NoTool),
         UserMessage(MsgHi, 0), AiMessage(ReplyAsk, 0, 4, 5, NoTool)>>
HistoryQuestionAfterAsk ==
    HistoryAsked \o <<UserMessage(MsgHi, 0), AiMessage(ReplyQuestion, 0, 4, 1, NoTool)>>
HistoryAskAfterQuestion ==
    <<UserMessage(MsgHi, 0), AiMessage(ReplyQuestion, 0, 4, 1, NoTool)>> \o HistoryAsked
FlowHistories ==
    Histories \cup {HistoryAskedAgain, HistoryQuestionAfterAsk, HistoryAskAfterQuestion}

\* conversation_flow.analyze_conversation_state(conversation_history, current_message)
CallAnalyzeConversationState ==
    /\ call.calls = 0
    /\ \E m \in FlowMessages, h \in FlowHistories :
          call' = [NoCall EXCEPT !.op = "analyze_conversation_state",
                                 !.calls = 1,
                                 !.message = m,
                                 !.history = h,
                                 !.result = AnalyzeConversationState(h, m)]
    /\ UNCHANGED <<settings, registry, now, ticks, sessions, messages, error_log,
                   violation_history, turn, nturns, nclears, last_clear, faults>>

\* messages for the guardrails: on and off the topic, and with several violations
MsgJokeWord == Text(<<"joke">>)
MsgWhoAreYou == Text(<<"who", "are", "you">>)
MsgWhatCanYouDo == Text(<<"what", "can", "you", "do">>)
MsgThankYou == Text(<<"thank", "you">>)
MsgLongSpam == Padded(<<"spam">>, MaxInputLength)
MsgSpamSsn == Text(<<"spam", "123-45-6789">>)
MsgJokeEmail == Text(<<"joke", "a@b.com">>)
GuardMessages ==
    {MsgJoke, MsgJokeWord, MsgWhoAreYou, MsgWhatCanYouDo, MsgThankYou, MsgHi, MsgHelp,
     MsgTrack, MsgSpam, MsgLongSpam, MsgSpamSsn, MsgJokeEmail}

\* histories for the guardrails: a tool-relevant reply seven messages back, one
\* within the last six, and the same short message sent twice without a reply
HistoryToolLongAgo ==
    HistoryTracked
    \o <<UserMessage(MsgWhoAreYou, 0), AiMessage(ReplyOk, 0, 4, 1, NoTool),
         UserMessage(MsgHi, 0), AiMessage(ReplyOk, 0, 4, 1, NoTool),
         UserMessage(MsgThankYou, 0), AiMessage(ReplyOk, 0, 4, 1, NoTool)>>
HistoryToolRecent ==
    HistoryTracked \o <<UserMessage(MsgWhoAreYou, 0), AiMessage(ReplyOk, 0, 4, 1, NoTool)>>
HistoryHiTwice == <<UserMessage(MsgHi, 0), UserMessage(MsgHi, 0), AiMessage(ReplyOk, 0, 4, 1, NoTool)>>
HistoryJokeTwice ==
    <<UserMessage(MsgJoke, 0), UserMessage(MsgJoke, 0), AiMessage(ReplyOk, 0, 4, 1, NoTool)>>
GuardHistories ==
    Histories \cup {HistoryToolLongAgo, HistoryToolRecent, HistoryHiTwice, HistoryJokeTwice}

\* the ledger of a manager that has seen three short messages in this minute
LedgerShort ==
    [s \in SessionIds |-> [i \in 1..ShortMessageLimit |->
                              [type |-> "short_message", timestamp |-> 0]]]
Ledgers == {NoViolations, LedgerShort}

\* guardrails._check_tool_relevance(message, conversation_history, session_id):
\* whether it raises, and the ledger it leaves
CallCheckToolRelevance ==
    /\ call.calls = 0
    /\ \E m \in GuardMessages, h \in GuardHistories, sid \in SessionIds :
          call' = [NoCall EXCEPT
                      !.op = "check_tool_relevance",
                      !.calls = 1,
                      !.message = m,
                      !.history = h,
                      !.result =
                          [error |-> IF OffTopic(m, h) THEN "off_topic" ELSE "ok",
                           ledger |-> IF OffTopic(m, h)
                                      THEN RecordViolation(NoViolations, sid,
                                                           "off_topic", now)
                                      ELSE NoViolations]]
    /\ UNCHANGED <<settings, registry, now, ticks, sessions, messages, error_log,
                   violation_history, turn, nturns, nclears, last_clear, faults>>

\* guardrails.validate_user_message(message, session_id, conversation_history)
CallValidateUserMessage ==
    /\ call.calls = 0
    /\ \E m \in GuardMessages, h \in GuardHistories, l \in Ledgers, sid \in SessionIds :
          call' = [NoCall EXCEPT !.op = "validate_user_message",
                                 !.calls = 1,
                                 !.message = m,
                                 !.history = h,
                                 !.ledger = l,
                                 !.result = ValidateUserMessage(m, sid, h, l, now)]
    /\ UNCHANGED <<settings, registry, now, ticks, sessions, messages, error_log,
                   violation_history, turn, nturns, nclears, last_clear, faults>>

\* how long after a call the ledger of the same manager is read
ReadDelays == {ViolationRetentionMinutes - 1, ViolationRetentionMinutes}

\* guardrails.get_session_violations(session_id), on the manager of the call
\* before it and some time later: it returns the list as it is
GetSessionViolations ==
    /\ call.op = "validate_user_message"
    /\ call.calls = 1
    /\ ticks < MaxTicks
    /\ \E d \in ReadDelays :
          /\ now' = now + d
          /\ ticks' = ticks + 1
          /\ call' = [call EXCEPT !.op = "get_session_violations",
                                  !.calls = 2,
                                  !.previous = call.result,
                                  !.result = [error |-> "ok",
                                              ledger |-> call.result.ledger]]
    /\ UNCHANGED <<settings, registry, sessions, messages, error_log,
                   violation_history, turn, nturns, nclears, last_clear, faults>>

\* guardrails.validate_user_message called once more on the same manager, after
\* the ledger was read: the ledger it finds is the one the first call left
ValidateUserMessageLater ==
    /\ call.op = "get_session_violations"
    /\ call.calls = 2
    /\ \E m \in {MsgSpam, MsgHi}, sid \in SessionIds :
          call' = [call EXCEPT !.op = "validate_user_message_later",
                               !.calls = 3,
                               !.message = m,
                               !.ledger = call.result.ledger,
                               !.previous = call.result,
                               !.result = ValidateUserMessage(m, sid, call.history,
                                                              call.result.ledger, now)]
    /\ UNCHANGED <<settings, registry, now, ticks, sessions, messages, error_log,
                   violation_history, turn, nturns, nclears, last_clear, faults>>

\* a history of n messages, user and assistant in turn, each with its own text
HistoryOf(n) ==
    [i \in 1..n |->
        IF i % 2 = 1 THEN UserMessage(Padded(<<"help">>, i), 0)
        ELSE AiMessage(Padded(<<"ok">>, i), 0, 4, 1, NoTool)]

\* histories around the window of the LLM context, and messages: one that is new
\* and one that the history holds already
ContextHistories ==
    {HistoryOf(n) : n \in {0, 1, ContextWindow - 1, ContextWindow,
                           ContextWindow + 1, ContextWindow + 2}}
ContextMessages == {MsgTrack, Padded(<<"help">>, ContextWindow + 1)}

\* process_message from the history read to the LLM call, on a store that holds
\* h: the history is read, the user message is persisted, and the message list
\* is built from the history read before
CallPrepareConversationContext ==
    /\ call.calls = 0
    /\ \E m \in ContextMessages, h \in ContextHistories,
          tool_response \in {NoToolResponse, ToolSucceeded(NoDetection, "in_transit")},
          flow_state \in {FlowState("initial", "none", 0, "none"),
                          FlowState("waiting_for_input", "delivery_number", 1, "none")} :
          call' = [NoCall EXCEPT
                      !.op = "prepare_conversation_context",
                      !.calls = 1,
                      !.message = m,
                      !.history = ConversationHistory(h),
                      !.result =
                          [persisted |-> Append(h, UserMessage(m, now)),
                           messages |->
                               PrepareConversationContext(m, ConversationHistory(h),
                                                          tool_response, flow_state)]]
    /\ UNCHANGED <<settings, registry, now, ticks, sessions, messages, error_log,
                   violation_history, turn, nturns, nclears, last_clear, faults>>

\* histories for the context boost: two messages with one context keyword each
\* ("shipped", "sent"), the older first, among messages without any
HistoryShippedSent ==
    <<AiMessage(Text(<<"your", "package", "was", "shipped">>), 0, 8, 4, DeliveryTracker),
      UserMessage(MsgHi, 0),
      AiMessage(Text(<<"it", "was", "sent">>), 0, 4, 3, NoTool),
      UserMessage(MsgHelp, 0)>>
BoostHistories == Histories \cup {HistoryShippedSent, HistoryToolLongAgo}

\* tool_detector._analyze_conversation_context(conversation_history, 'delivery_tracking')
CallAnalyzeConversationContext ==
    /\ call.calls = 0
    /\ \E h \in BoostHistories :
          call' = [NoCall EXCEPT !.op = "analyze_conversation_context",
                                 !.calls = 1,
                                 !.history = h,
                                 !.result = AnalyzeConversationContext(h)]
    /\ UNCHANGED <<settings, registry, now, ticks, sessions, messages, error_log,
                   violation_history, turn, nturns, nclears, last_clear, faults>>

-----------------------------------------------------------------------------
(* Two requests at a time: each store operation is atomic (one commit), and   *)
(* the steps of two requests for the same session interleave in any order.   *)

ConcurrentMessages == {MsgHelp, MsgTrack}

\* two turns, one per slot, and the clear request
MaxInterleavedTurns == 2

\* a request arrives while another may be running
Submit ==
    \E t \in Slots, sid \in SessionIds, m \in ConcurrentMessages :
        /\ nturns < MaxInterleavedTurns
        /\ Begin(t, sid, m)

\* a clear request arrives while a turn may be running
ClearDuring == \E t \in Slots, sid \in SessionIds : ClearSession(t, sid)

\* the next stage of the request of slot t
StepOf(t) ==
    \/ GetOrCreateSession(t)
    \/ GetConversationHistory(t)
    \/ ValidateInput(t)
    \/ SaveUserMessage(t)
    \/ AnalyzeFlow(t)
    \/ DetectTool(t)
    \/ HandleToolExecution(t)
    \/ GenerateLlmResponse(t)
    \/ ValidateOutput(t)
    \/ SaveAiMessage(t)
    \/ UpdateSessionActivity(t)
    \/ LogError(t)

\* the process as started by main.py, with the delivery tracker registered
InitInterleaved == Init /\ registry = {DeliveryTracker}

NextInterleaved == Submit \/ ClearDuring \/ StepOf(1) \/ StepOf(2)

SpecInterleaved == InitInterleaved /\ [][NextInterleaved]_vars

\* every combination of the switches of config.py the functions read
SettingsOfCalls ==
    [enable_general_chat : BOOLEAN, content_filter_enabled : BOOLEAN,
     tools_enabled : BOOLEAN, delivery_tracker_enabled : BOOLEAN]

InitCalls ==
    /\ settings \in SettingsOfCalls
    /\ registry = {DeliveryTracker}
    /\ now = 0
    /\ ticks = 0
    /\ sessions = [s \in SessionIds |-> NoSession]
    /\ messages = [s \in SessionIds |-> <<>>]
    /\ error_log = [s \in SessionIds |-> <<>>]
    /\ violation_history = [t \in Slots |-> NoViolations]
    /\ turn = [t \in Slots |-> IdleTurn]
    /\ nturns = 0
    /\ nclears = 0
    /\ last_clear = NoClear
    /\ faults = 0
    /\ call = NoCall

NextCalls ==
    \/ CallValidateAiResponse
    \/ RevalidateAiResponse
    \/ CallAnalyzeMessage
    \/ RepeatAnalyzeMessage
    \/ CallAnalyzeConversationState
    \/ CallCheckToolRelevance
    \/ CallValidateUserMessage
    \/ GetSessionViolations
    \/ ValidateUserMessageLater
    \/ CallPrepareConversationContext
    \/ CallAnalyzeConversationContext

\* the functions of the core called one at a time on arguments of small sets
SpecCalls == InitCalls /\ [][NextCalls]_vars
-----------------------------------------------------------------------------
(* Properties of process_message when requests are served one at a time *)

Cur == turn[1]
Range(seq) == {seq[i] : i \in DOMAIN seq}
IsPrefix(s, t) == Len(s) <= Len(t) /\ SubSeq(t, 1, Len(s)) = s
Stored == messages[Cur.session_id]
StoredBefore == Cur.pre.messages[Cur.session_id]
Raised == Cur.pc \in {"except", "failed"}
StagesToValidation ==
    <<"get_or_create_session", "get_conversation_history", "validate_user_message">>

C1_Always ==
    Cur.error = "ValidationError" =>
        /\ Raised
        /\ Stored = StoredBefore
        /\ Cur.stages = StagesToValidation
        /\ ~Cur.llm_invoked
        /\ ~Cur.tool_called
        /\ ~Cur.tool_response.present
        /\ ~Cur.response.present

C1_Step ==
    (/\ Cur.pc = "validate_user_message"
     /\ \/ TextLen(Cur.message) > MaxInputLength
        \/ ValidateUserMessage(Cur.message, Cur.session_id, Cur.history,
                               violation_history[1], now).error # "ok")
    => (turn'[1].pc = "except" /\ turn'[1].error = "ValidationError")

\* C1: whenever validate_user_message rejects the message (in particular a
\* message of more than max_input_length characters), process_message raises
\* ValidationError, the session's persisted messages are those it had before the
\* turn, and no stage after validation runs: no flow analysis, no tool detection
\* or execution, no LLM call, no response.
C1_RejectedInputAbortsTurn == [](C1_Always) /\ [][C1_Step]_vars

\* a message of more than max_input_length characters was rejected in a session
\* that already holds messages
C1_Witness ==
    /\ Cur.pc = "failed"
    /\ Cur.error = "ValidationError"
    /\ Cur.reason = "too_long"
    /\ TextLen(Cur.message) > MaxInputLength
    /\ Len(StoredBefore) >= 2

\* C2 as stated: a turn that ends in ValidationError leaves the session records,
\* the persisted messages, the error log and the violation ledger as they were
\* before the turn.
C2_RejectedTurnHasNoSideEffect ==
    (Cur.pc = "failed" /\ Cur.error = "ValidationError") =>
        /\ sessions = Cur.pre.sessions
        /\ messages = Cur.pre.messages
        /\ error_log = Cur.pre.error_log
        /\ violation_history[1] = NoViolations

\* C2, amended: a turn that ends in ValidationError leaves the persisted messages
\* and every session record that existed before the turn as they were; what it
\* can add is an empty session record for an identifier seen for the first time,
\* one row of the error log of the session, and entries of the violation ledger.
C2_RejectedTurnKeepsMessagesAndSessions ==
    (Cur.pc = "failed" /\ Cur.error = "ValidationError") =>
        /\ messages = Cur.pre.messages
        /\ \A s \in SessionIds :
              IF Cur.pre.sessions[s].exists
              THEN sessions[s] = Cur.pre.sessions[s]
              ELSE \/ sessions[s] = Cur.pre.sessions[s]
                   \/ /\ s = Cur.session_id
                      /\ sessions[s].exists
                      /\ sessions[s].message_count = 0
                      /\ sessions[s].total_input_tokens = 0
                      /\ sessions[s].total_output_tokens = 0
        /\ \A s \in SessionIds :
              \/ error_log[s] = Cur.pre.error_log[s]
              \/ /\ s = Cur.session_id
                 /\ Len(error_log[s]) = Len(Cur.pre.error_log[s]) + 1
                 /\ SubSeq(error_log[s], 1, Len(Cur.pre.error_log[s]))
                        = Cur.pre.error_log[s]

\* the first message of a new session was rejected: the turn left a session
\* record, an error-log row and a ledger entry
C2_Witness ==
    /\ Cur.pc = "failed"
    /\ Cur.error = "ValidationError"
    /\ ~Cur.pre.sessions[Cur.session_id].exists
    /\ sessions[Cur.session_id].exists
    /\ Len(error_log[Cur.session_id]) = Len(Cur.pre.error_log[Cur.session_id]) + 1
    /\ violation_history[1] # NoViolations

\* C3 as stated: when detection requires a tool the registry does not hold, the
\* tool stage ends the turn with ToolError: process_message raises, the LLM is
\* not invoked and no assistant message is persisted.
C3_UnknownToolFailsTurn ==
    (/\ Cur.detection.tool_required
     /\ Cur.detection.tool_name \notin registry
     /\ "handle_tool_execution" \in Range(Cur.stages))
    => /\ Raised
       /\ Cur.error = "ToolError"
       /\ ~Cur.llm_invoked
       /\ \A i \in Len(StoredBefore) + 1 .. Len(Stored) : Stored[i].role = "user"

LlmStageFailed ==
    /\ Raised
    /\ Cur.stages # <<>>
    /\ Cur.stages[Len(Cur.stages)] = "generate_llm_response"

\* C4: when _generate_llm_response fails, process_message raises LLMError, the
\* turn has added the user message and nothing else to the session's messages,
\* the session's token totals are those of before the turn, and no response is
\* returned.
C4_LlmFailureKeepsUserMessage ==
    LlmStageFailed =>
        /\ Cur.error = "LLMError"
        /\ Len(Stored) = Len(StoredBefore) + 1
        /\ SubSeq(Stored, 1, Len(StoredBefore)) = StoredBefore
        /\ Stored[Len(Stored)].role = "user"
        /\ Stored[Len(Stored)].content = Cur.message
        /\ sessions[Cur.session_id].total_input_tokens
             = Cur.pre.sessions[Cur.session_id].total_input_tokens
        /\ sessions[Cur.session_id].total_output_tokens
             = Cur.pre.sessions[Cur.session_id].total_output_tokens
        /\ ~Cur.response.present

\* the provider failed in the second turn of a session: the turn raised and the
\* session holds three messages
C4_Witness ==
    /\ Cur.pc = "failed"
    /\ LlmStageFailed
    /\ Cur.llm_invoked
    /\ Len(Stored) = 3
    /\ sessions[Cur.session_id].total_input_tokens > 0

ToolFailedInRegistry ==
    /\ Cur.tool_response.present
    /\ ~Cur.tool_response.success
    /\ Cur.tool_response.tool_name \in registry

C5_Always ==
    ToolFailedInRegistry =>
        /\ Cur.error # "ToolError"
        /\ Cur.tool_called
        /\ Cur.tool_name = Cur.detection.tool_name
        /\ Cur.llm_invoked =>
              Cur.llm_messages[1].content.tool_context
                = <<"execution failed", Cur.detection.tool_name,
                    Cur.tool_response.error>>
        /\ Cur.pc = "returned" =>
              /\ Cur.llm_invoked
              /\ Cur.response.tool_called
              /\ Cur.response.tool_name = Cur.detection.tool_name
              /\ Len(Stored) = Len(StoredBefore) + 2
              /\ Stored[Len(Stored)].role = "assistant"
              /\ Stored[Len(Stored)].content = Cur.response.response

C5_Step ==
    Cur.pc = "handle_tool_execution" => turn'[1].pc = "generate_llm_response"

\* C5: when a registered tool fails while executing, the tool stage does not end
\* the turn: the next stage is LLM generation, the LLM is invoked with a system
\* message that says the tool's execution failed and carries the error text, and
\* when the turn returns the assistant message is persisted and the response
\* has tool_called = True and the detected tool's name. (The LLM stage or a
\* store operation can still fail the turn afterwards.)
C5_ToolFailureIsAbsorbed == [](C5_Always) /\ [][C5_Step]_vars

\* a turn returned its response after the registered tool failed
C5_Witness ==
    /\ Cur.pc = "returned"
    /\ ToolFailedInRegistry
    /\ Cur.tool_response.error \in ToolFailures

\* the stages of process_message in the order of its code
StageOrder(with_tool) ==
    <<"get_or_create_session", "get_conversation_history", "validate_user_message",
      "save_user_message", "analyze_conversation_state", "analyze_message">>
    \o (IF with_tool THEN <<"handle_tool_execution">> ELSE <<>>)
    \o <<"generate_llm_response", "validate_ai_response", "save_ai_message",
         "update_session_activity">>

InTurn == Cur.pc \notin {"idle", "cleared"}

\* C6: a turn that returns a response has run every stage exactly once, in the
\* order session, history, input validation, persist user message, flow
\* analysis, tool detection, tool execution (when and only when detection
\* requires a tool), LLM generation, output validation, persist assistant
\* message, update activity; the stages of a turn that fails are a prefix of that
\* order; the user message is persisted only after validation has passed and the
\* assistant message only after output validation.
C6_StagesRunInOrder ==
    InTurn =>
        /\ IsPrefix(Cur.stages, StageOrder(Cur.detection.tool_required))
        /\ Cur.pc = "returned" =>
              /\ Cur.stages = StageOrder(Cur.detection.tool_required)
              /\ Len(Stored) = Len(StoredBefore) + 2
        /\ Stored # StoredBefore =>
              /\ IsPrefix(StagesToValidation \o <<"save_user_message">>, Cur.stages)
              /\ Cur.error # "ValidationError"
              /\ Stored[Len(StoredBefore) + 1].role = "user"
        /\ Len(Stored) > Len(StoredBefore) + 1 =>
              /\ "validate_ai_response" \in Range(Cur.stages)
              /\ "save_ai_message" \in Range(Cur.stages)
              /\ Len(Stored) = Len(StoredBefore) + 2
              /\ Stored[Len(Stored)].role = "assistant"

\* a turn that ran the tool stage returned its response
C6_Witness ==
    /\ Cur.pc = "returned"
    /\ Cur.detection.tool_required
    /\ Len(Cur.stages) = 11
    /\ Cur.stages[7] = "handle_tool_execution"

\* C7: at every point of a run in which turns (accepted, rejected, failed at any
\* stage) and clear_session calls are served one at a time, the message_count of
\* every existing session is the number of messages persisted for it.
C7_MessageCountMatchesMessages ==
    \A s \in SessionIds :
        sessions[s].exists => sessions[s].message_count = Len(messages[s])

\* a session was cleared and then a turn failed at the LLM stage: the session
\* holds one message
C7_Witness ==
    /\ Cur.pc = "failed"
    /\ Cur.error = "LLMError"
    /\ last_clear.success
    /\ sessions[Cur.session_id].exists
    /\ sessions[Cur.session_id].message_count = 1
    /\ Len(Stored) = 1

C8_Always ==
    ("validate_user_message" \in Range(Cur.stages)
        /\ Len(Cur.history) >= MaxConversationLength)
    => /\ Raised
       /\ Cur.error = "ValidationError"
       /\ Stored = StoredBefore

C8_Step ==
    /\ (Cur.pc = "validate_user_message"
            /\ Len(Cur.history) >= MaxConversationLength)
       => (turn'[1].pc = "except" /\ turn'[1].error = "ValidationError")
    /\ \A s \in SessionIds :
          Len(messages[s]) >= MaxConversationLength
          => \/ Len(messages'[s]) >= MaxConversationLength
             \/ messages'[s] = <<>> /\ nclears' = nclears + 1

\* C8: a turn that finds max_conversation_length or more messages in the
\* session's history is rejected with ValidationError and persists nothing; a
\* session that holds that many messages never holds fewer, so every later turn
\* is rejected as well, until clear_session empties the session.
C8_ConversationLimitIsPermanent == [](C8_Always) /\ [][C8_Step]_vars

\* a turn was rejected because the session had reached the limit
C8_Witness ==
    /\ Cur.pc = "failed"
    /\ Cur.error = "ValidationError"
    /\ Cur.reason = "conversation_limit"
    /\ Len(Stored) >= MaxConversationLength

\* how often the message of the turn is among the user messages of the last
\* five entries of the history
Occurrences ==
    Cardinality({i \in 1..Len(Cur.history) :
                    /\ i > Len(Cur.history) - RepetitionWindow
                    /\ Cur.history[i].role = "user"
                    /\ Cur.history[i].content = Cur.message})

\* the message of the turn is the one of the previous turn, which completed
SentTwiceInARow ==
    /\ Len(Cur.history) >= 2
    /\ Cur.history[Len(Cur.history) - 1].role = "user"
    /\ Cur.history[Len(Cur.history) - 1].content = Cur.message
    /\ Cur.history[Len(Cur.history)].role = "assistant"

Validated == "validate_user_message" \in Range(Cur.stages)

\* C9 as stated: a message that repeats the message of the previous, completed
\* turn is rejected with the repetition ValidationError and is not persisted.
C9_SecondSendIsRejected ==
    (Validated /\ SentTwiceInARow) =>
        /\ Raised
        /\ Cur.error = "ValidationError"
        /\ Cur.reason = "repetitive_message"
        /\ Stored = StoredBefore

\* C9, amended: the repetition ValidationError is raised only for a message that
\* is already at least twice among the user messages of the last five entries of
\* the history, and every such message is rejected and not persisted (by the
\* repetition check, unless the off-topic check or the conversation limits
\* reject it first); a message sent twice in a row is accepted the second time
\* and rejected from the third consecutive send on.
C9_RepetitionNeedsTwoEarlierCopies ==
    Validated =>
        /\ Cur.reason = "repetitive_message" =>
              /\ Occurrences >= DuplicateLimit
              /\ Cur.error = "ValidationError"
              /\ Stored = StoredBefore
        /\ (Occurrences >= DuplicateLimit /\ Len(Cur.history) >= 2) =>
              /\ Cur.error = "ValidationError"
              /\ Cur.reason \in {"repetitive_message", "off_topic",
                                 "conversation_limit", "session_timeout"}
              /\ Stored = StoredBefore
        /\ (SentTwiceInARow /\ Occurrences < DuplicateLimit) =>
              Cur.reason # "repetitive_message"

\* the third send of a message was rejected as a repetition
C9_Witness ==
    /\ Cur.pc = "failed"
    /\ Cur.reason = "repetitive_message"
    /\ Occurrences = 2
    /\ Cur.message = MsgHelp

\* C10: reading the history of a session returns the persisted messages in the
\* order they were written, with their roles and contents; a turn that returns
\* has added two entries, the user message and then the assistant message; user
\* messages carry no tokens; the token totals of an existing session are the
\* sums of the token fields of its messages.
C10_HistoryRoundTrip ==
    /\ \A s \in SessionIds :
          /\ ConversationHistory(messages[s]) = messages[s]
          /\ \A i \in 1..Len(messages[s]) :
                messages[s][i].role = "user" =>
                    /\ messages[s][i].input_tokens = 0
                    /\ messages[s][i].output_tokens = 0
          /\ sessions[s].exists =>
                /\ sessions[s].total_input_tokens
                     = SumField(messages[s], "input_tokens")
                /\ sessions[s].total_output_tokens
                     = SumField(messages[s], "output_tokens")
    /\ (InTurn /\ "validate_user_message" \in Range(Cur.stages)) =>
          Cur.history = StoredBefore
    /\ (InTurn /\ Cur.pc = "returned") =>
          /\ Stored = StoredBefore
                \o <<UserMessage(Cur.message, Stored[Len(Stored) - 1].timestamp),
                     AiMessage(Cur.response.response, Stored[Len(Stored)].timestamp,
                               Cur.response.input_tokens, Cur.response.output_tokens,
                               Cur.response.tool_name)>>

\* the second turn of a session returned, some minutes after the first: the
\* history holds four messages and the session has counted tokens
C10_Witness ==
    /\ Cur.pc = "returned"
    /\ Len(Stored) = 4
    /\ Stored[1].timestamp < Stored[4].timestamp
    /\ sessions[Cur.session_id].total_output_tokens > 0
    /\ sessions[Cur.session_id].total_input_tokens
         > Stored[2].input_tokens

-----------------------------------------------------------------------------
(* Clearing a session, and asking for a session more than once *)

ClearStep == nclears' = nclears + 1
GotSession == Cur.pc = "get_conversation_history" \/ Len(Cur.stages) >= 2
Cleared == last_clear.session_id

C11_Step ==
    ClearStep =>
        /\ messages'[last_clear'.session_id] = <<>>
        /\ GetSession(sessions', last_clear'.session_id) = NoSession
        /\ last_clear'.success = sessions[last_clear'.session_id].exists
        /\ turn'[1].pc = "cleared"

C11_Always ==
    /\ (Cur.pc = "cleared") =>
          /\ messages[Cleared] = <<>>
          /\ GetSession(sessions, Cleared) = NoSession
    /\ (/\ InTurn
        /\ nclears > 0
        /\ Cur.session_id = Cleared
        /\ ~Cur.pre.sessions[Cleared].exists
        /\ GotSession) =>
          /\ "get_conversation_history" \in Range(Cur.stages) => Cur.history = <<>>
          /\ Cur.pc = "get_conversation_history" =>
                /\ sessions[Cleared] = NewSession(now)
                /\ sessions[Cleared].message_count = 0
                /\ sessions[Cleared].total_input_tokens = 0
                /\ sessions[Cleared].total_output_tokens = 0
                /\ messages[Cleared] = <<>>

\* C11: clear_session(id) leaves no message and no session record of that
\* identifier, so get_session returns None; it returns True exactly when a
\* session record existed before the call; and the next get_or_create_session
\* for the identifier yields a new session with message_count 0, zero token
\* totals and an empty history.
C11_ClearLeavesNothingBehind == [](C11_Always) /\ [][C11_Step]_vars

\* a session that had a record was cleared with result True, and the turn that
\* followed got a new, empty session and read an empty history
C11_Witness ==
    /\ nclears = 1
    /\ last_clear.success
    /\ InTurn
    /\ Cur.session_id = Cleared
    /\ Cur.pc = "validate_user_message"
    /\ Cur.history = <<>>
    /\ sessions[Cleared].message_count = 0
    /\ nturns >= 2

SessionStep ==
    /\ Cur.pc = "get_or_create_session"
    /\ turn'[1].pc = "get_conversation_history"

C12_Step ==
    SessionStep =>
        IF sessions[Cur.session_id].exists
        THEN /\ sessions' = sessions
             /\ messages' = messages
             /\ GetSession(sessions', Cur.session_id) = Cur.pre.sessions[Cur.session_id]
        ELSE /\ sessions' = [sessions EXCEPT ![Cur.session_id] = NewSession(now)]
             /\ messages' = messages

C12_Kept ==
    \A s \in SessionIds :
        (sessions[s].exists /\ sessions'[s].exists) =>
            /\ sessions'[s].created_at = sessions[s].created_at
            /\ sessions'[s].message_count >= sessions[s].message_count
            /\ sessions'[s].total_input_tokens >= sessions[s].total_input_tokens
            /\ sessions'[s].total_output_tokens >= sessions[s].total_output_tokens

\* C12: get_or_create_session called again with an identifier that has a session
\* (no clear in between) returns that session and changes nothing: the record,
\* its creation time, its message_count and token totals and the messages stay
\* as they are, and the store holds one record for the identifier; only the call
\* for an identifier without a record adds one.
C12_GetOrCreateIsIdempotent == [][C12_Step /\ C12_Kept]_vars

\* a later turn, some minutes after the session was created, asked for the
\* session again and got the record with its two messages counted
C12_Witness ==
    /\ Cur.pc = "get_conversation_history"
    /\ Cur.pre.sessions[Cur.session_id].exists
    /\ sessions[Cur.session_id].message_count >= 2
    /\ sessions[Cur.session_id].created_at < now
    /\ sessions[Cur.session_id] = Cur.pre.sessions[Cur.session_id]

-----------------------------------------------------------------------------
(* Failures inside a turn *)

\* the step in which analyze_conversation_state raised internally
FlowAnalysisFailed ==
    /\ Cur.pc = "analyze_conversation_state"
    /\ faults' = faults + 1

\* C13 as stated: when analyze_conversation_state fails internally the turn goes
\* on and the flow state handed to the LLM prompt assembly is ONGOING.
C13_FlowFailureDegradesToOngoing ==
    [][FlowAnalysisFailed =>
          /\ turn'[1].pc = "analyze_message"
          /\ turn'[1].flow_state.state = "ongoing"]_vars

C13_Always ==
    (InTurn /\ Cur.flow_state.state = "error") =>
        /\ ~Cur.flow_state.awaiting_input
        /\ Cur.error \notin {"ValidationError"}
        /\ Cur.llm_invoked =>
              /\ Cur.llm_messages[1].content.waiting_for = "none"
              /\ Cur.llm_messages
                   = PrepareConversationContext(Cur.message, Cur.history,
                        Cur.tool_response, FlowState("ongoing", "none", 0, "none"))

\* C13, amended: when analyze_conversation_state fails internally the turn goes
\* on to tool detection, and the flow state handed to the LLM prompt assembly is
\* ERROR with awaiting_input false; the messages sent to the LLM are then those
\* an ONGOING state would give (no solicitation section).
C13_FlowFailureYieldsErrorState ==
    /\ [](C13_Always)
    /\ [][FlowAnalysisFailed =>
             /\ turn'[1].pc = "analyze_message"
             /\ turn'[1].flow_state.state = "error"
             /\ turn'[1].error = "none"
             /\ messages' = messages]_vars

\* the analysis failed in a turn whose history ends with the assistant asking
\* for a delivery number, and the turn returned a response
C13_Witness ==
    /\ Cur.pc = "returned"
    /\ Cur.flow_state.state = "error"
    /\ AnalyzeConversationState(Cur.history, Cur.message).state = "waiting_for_input"
    /\ Cur.response.present

-----------------------------------------------------------------------------
(* Properties of single functions (specification SpecCalls) *)

C14_Always ==
    call.op = "validate_ai_response" =>
        /\ TextLen(call.response) <= MaxResponseChars => call.result = call.response
        /\ TextLen(call.response) > MaxResponseChars =>
              /\ call.result.w = call.response.w
              /\ call.result.cut
              /\ call.result.fill < call.response.fill
              /\ TextLen(call.result) = TruncatedResponseChars + TruncationNoticeChars
              /\ TextLen([call.result EXCEPT !.cut = FALSE]) = TruncatedResponseChars
        /\ TextLen(call.result) <= MaxResponseChars

C14_Step ==
    (call.op = "validate_ai_response" /\ call'.op = "validate_ai_response"
        /\ call'.response = call.result)
    => call'.result = call.result

\* C14: validate_ai_response always returns a response: its argument unchanged
\* when that has at most 5000 characters, otherwise the first 4800 characters
\* followed by the truncation notice; what it returns never has more than 5000
\* characters, and applying it to what it returned changes nothing.
C14_OutputValidationTruncatesOnce == [](C14_Always) /\ [][C14_Step]_vars

\* a response of more than 5000 characters was cut, and validated a second time
C14_Witness ==
    /\ call.op = "validate_ai_response"
    /\ call.calls = 2
    /\ call.response.cut
    /\ call.result = call.response
    /\ TextLen(call.result) = TruncatedResponseChars + TruncationNoticeChars

-----------------------------------------------------------------------------
(* What a failed turn raises (specification Spec) *)

SurfacedErrors == {"ChatBotException", "ValidationError", "LLMError", "DatabaseError"}

C15_Step ==
    Cur.pc = "except" =>
        /\ turn'[1].pc = "failed"
        /\ turn'[1].error \in SurfacedErrors
        /\ Cur.error \in SurfacedErrors => turn'[1].error = Cur.error
        /\ Cur.error \notin SurfacedErrors => turn'[1].error = "ChatBotException"
        /\ turn'[1].reason = Cur.reason
        /\ \/ error_log' = error_log
           \/ error_log' = [error_log EXCEPT ![Cur.session_id] =
                               Append(@, ErrorLogRow(Cur.reason, now))]
        /\ messages' = messages /\ sessions' = sessions

C15_Always ==
    /\ Cur.pc = "failed" =>
          /\ Cur.error \in SurfacedErrors
          /\ ~Cur.response.present
          /\ Len(error_log[Cur.session_id]) <= Len(Cur.pre.error_log[Cur.session_id]) + 1
    /\ (InTurn /\ Cur.pc # "failed") => error_log = Cur.pre.error_log
    /\ (InTurn /\ ~Raised) => Cur.error = "none"

\* C15: a process_message call that fails raises ChatBotException or one of
\* ValidationError, LLMError, DatabaseError: a ChatBotException is re-raised as
\* it is and any other exception is wrapped in a ChatBotException.  The except
\* block makes one attempt to add an error-log row for the session; whether the
\* row is written or the write fails, the error raised is the same.
C15_FailuresSurfaceAsChatBotException == [](C15_Always) /\ [][C15_Step]_vars

\* the error-log write failed in a turn whose message was rejected, and the
\* caller still got the ValidationError with its reason
C15_Witness ==
    /\ Cur.pc = "failed"
    /\ Cur.error = "ValidationError"
    /\ Cur.reason = "inappropriate_content"
    /\ faults = 1
    /\ error_log = Cur.pre.error_log

-----------------------------------------------------------------------------
(* Tool detection (specification SpecCalls) *)

ToolsOn == settings.tools_enabled /\ settings.delivery_tracker_enabled
Detected == call.op = "analyze_message"

\* the tokens of a message that pass _validate_delivery_number, in text order
ValidTokens(m) == SelectSeq(Words(m), ValidateDeliveryNumber)

\* the valid tokens of a message that match number pattern k, in text order
ValidOfPattern(m, k) ==
    SelectSeq(Words(m), LAMBDA wd : NumberPattern(k, wd) /\ ValidateDeliveryNumber(wd))

\* the pattern of lowest index that has a valid match
FirstPattern(m) ==
    CHOOSE k \in 1..4 :
        /\ ValidOfPattern(m, k) # <<>>
        /\ \A j \in 1..(k - 1) : ValidOfPattern(m, j) = <<>>

\* C16 as stated: with both options true, a message that holds a token passing
\* the identifier validation yields tool_required, tool_name delivery_tracker
\* and delivery_number equal to the first such token, whatever the history; with
\* either option false no message yields tool_required.
C16_ValidTokenIsDetected ==
    Detected =>
        /\ (ToolsOn /\ ValidTokens(call.message) # <<>>) =>
              /\ call.result.tool_required
              /\ call.result.tool_name = DeliveryTracker
              /\ call.result.extracted_parameters
                   = <<Upper(ValidTokens(call.message)[1].s)>>
        /\ ~ToolsOn => ~call.result.tool_required

\* C16, amended: an identifier is a token of the upper-cased message that
\* matches one of the four number patterns and passes the validation.  With both
\* options true, a message that holds one yields tool_required, tool_name
\* delivery_tracker and delivery_number equal to the first match of the first
\* pattern (in the order of the pattern list) that has one, whatever the
\* history; with either option false no message yields tool_required.
C16_PatternMatchIsDetected ==
    Detected =>
        /\ (ToolsOn /\ \E k \in 1..4 : ValidOfPattern(call.message, k) # <<>>) =>
              /\ call.result.tool_required
              /\ call.result.tool_name = DeliveryTracker
              /\ call.result.extracted_parameters
                   = <<Upper(ValidOfPattern(call.message,
                                            FirstPattern(call.message))[1].s)>>
        /\ ~ToolsOn => call.result = NoDetection

\* a message with a pure numeric identifier before a two-letter one was
\* analysed with a history, and the two-letter one was extracted
C16_Witness ==
    /\ Detected
    /\ ToolsOn
    /\ call.message = MsgTwoNumbers
    /\ call.history # <<>>
    /\ call.result.tool_required
    /\ call.result.extracted_parameters = <<"AB1234567890">>

-----------------------------------------------------------------------------
(* Conversation flow (specification SpecCalls) *)

\* the last assistant message of the history of the call asks for a delivery number
DeliveryNumberSolicited ==
    /\ call.op = "analyze_conversation_state"
    /\ LastAiIndex(call.history) # 0
    /\ HasPair(call.history[LastAiIndex(call.history)].content, "delivery", "number")

\* the tokens of a message that hold a digit and pass _validate_delivery_number
TrackingIdentifiers(m) ==
    {Upper(Words(m)[i].s) : i \in {j \in 1..Len(Words(m)) :
                                      /\ Words(m)[j].digits > 0
                                      /\ ValidateDeliveryNumber(Words(m)[j])}}

PlainWordsOnly(m) == \A i \in 1..Len(Words(m)) : Words(m)[i].digits = 0

\* C17 as stated: when the last assistant message solicits a delivery number,
\* analyze_conversation_state returns ONGOING with the tracking identifier as
\* extracted_info when the user message holds one, and WAITING_FOR_INPUT for a
\* user message of plain words only.
C17_PlainWordsKeepWaiting ==
    DeliveryNumberSolicited =>
        /\ TrackingIdentifiers(call.message) # {} =>
              /\ call.result.state = "ongoing"
              /\ call.result.extracted_info \in TrackingIdentifiers(call.message)
        /\ PlainWordsOnly(call.message) =>
              /\ call.result.state = "waiting_for_input"
              /\ call.result.extracted_info = "none"

-----------------------------------------------------------------------------
(* Input guardrails (specification SpecCalls) *)

\* the message holds no tool keyword and no courtesy phrase
OffTheTools(m) ==
    /\ ~HasWord(m, ToolKeywordWords)
    /\ ~HasWord(m, CourtesyWords)
    /\ ~HasPair(m, "thank", "you")

\* the message matches an off-topic keyword or has more than 3 words
LooksOffTopic(m) == HasWord(m, OffTopicPatternWords) \/ SplitCount(m) > OffTopicWordLimit

\* a message of role r among the last n of the history mentions the tools
ToolTalkInLast(history, n, roles) ==
    \E i \in 1..Len(history) :
        /\ i > Len(history) - n
        /\ history[i].role \in roles
        /\ HasWord(history[i].content, ToolIndicatorWords)

C18_Check ==
    call.op = "check_tool_relevance" =>
        /\ (/\ OffTheTools(call.message)
            /\ LooksOffTopic(call.message)
            /\ ~ToolTalkInLast(call.history, ToolContextWindow, {"user", "assistant"}))
           => call.result.error = "off_topic"
        /\ (OffTheTools(call.message) /\ LooksOffTopic(call.message)) =>
              (call.result.error = "off_topic"
                 <=> ~ToolTalkInLast(call.history, ToolContextWindow, {"assistant"}))
        /\ call.result.error = "off_topic" =>
              OffTheTools(call.message) /\ LooksOffTopic(call.message)

C18_Validate ==
    call.op = "validate_user_message" =>
        /\ settings.enable_general_chat => call.result.error # "off_topic"
        /\ call.result.error = "off_topic" =>
              /\ ~settings.enable_general_chat
              /\ OffTheTools(call.message) /\ LooksOffTopic(call.message)
              /\ ~ToolTalkInLast(call.history, ToolContextWindow, {"assistant"})
        /\ (/\ ~settings.enable_general_chat
            /\ call.message = MsgJoke
            /\ ~ToolTalkInLast(call.history, ToolContextWindow, {"assistant"}))
           => call.result.error = "off_topic"

\* C18: with enable_general_chat false, a message with no tool keyword and no
\* courtesy phrase that matches an off-topic keyword or has more than 3 words
\* is rejected as off-topic unless the last 6 messages of the history hold a
\* tool-relevant exchange (an assistant message that mentions the tools); only
\* such messages are rejected as off-topic; with enable_general_chat true no
\* message is rejected as off-topic.
C18_OffTopicNeedsGeneralChatOff == C18_Check /\ C18_Validate

\* "tell me a joke about cats" was rejected as off-topic although the history
\* holds a tool-relevant reply, seven messages back
C18_Witness ==
    /\ call.op = "validate_user_message"
    /\ ~settings.enable_general_chat
    /\ call.message = MsgJoke
    /\ call.history = HistoryToolLongAgo
    /\ call.result.error = "off_topic"

-----------------------------------------------------------------------------
(* Determinism of the detector (specification SpecCalls) *)

C19_Always ==
    (Detected /\ call.calls = 2) =>
        /\ call.result.tool_required = call.previous.tool_required
        /\ call.result.tool_name = call.previous.tool_name
        /\ call.result.confidence = call.previous.confidence
        /\ call.result.extracted_parameters = call.previous.extracted_parameters

C19_Step ==
    call'.op = "analyze_message" =>
        /\ UNCHANGED <<settings, registry, now, sessions, messages, error_log,
                       violation_history, turn>>
        /\ call'.message \in DetectorMessages
        /\ call.calls = 1 => (call'.message = call.message /\ call'.history = call.history)

-----------------------------------------------------------------------------
(* The order of the input checks (specification SpecCalls) *)

\* the checks of validate_user_message in the order of the statement: whether
\* each one, taken alone, rejects the message, with which error, and the type of
\* the ledger entry it writes when it does
InputChecks(m, sid, history, ledger, t) ==
    << [fails |-> CheckMessageLength(m) # "ok",
        error |-> CheckMessageLength(m), entry |-> "none"],
       [fails |-> settings.content_filter_enabled /\ HasWord(m, InappropriateWords),
        error |-> "inappropriate_content", entry |-> "inappropriate_content"],
       [fails |-> SensitiveInformation(m),
        error |-> "sensitive_information", entry |-> "sensitive_information"],
       [fails |-> ~settings.enable_general_chat /\ OffTopic(m, history),
        error |-> "off_topic", entry |-> "off_topic"],
       [fails |-> CheckConversationLimits(history, t) # "ok",
        error |-> CheckConversationLimits(history, t), entry |-> "none"],
       [fails |-> CheckRepetitivePatterns(m, history) # "ok",
        error |-> CheckRepetitivePatterns(m, history),
        entry |-> IF CheckRepetitivePatterns(m, history) = "repetitive_message"
                  THEN "repetitive_message" ELSE "none"],
       [fails |-> CheckRateLimitingPatterns(m, sid, ledger, t).error # "ok",
        error |-> "short_message_pattern", entry |-> "none"] >>

FailingOf(checks) == {i \in 1..Len(checks) : checks[i].fails}
EarliestOf(checks) ==
    CHOOSE i \in FailingOf(checks) : \A j \in FailingOf(checks) : i <= j
NewEntries(s) ==
    SubSeq(call.result.ledger[s], Len(call.ledger[s]) + 1, Len(call.result.ledger[s]))

C20_Always ==
    call.op = "validate_user_message" =>
        \A s \in SessionIds :
            LET checks == InputChecks(call.message, s, call.history, call.ledger, now)
                failing == FailingOf(checks)
                first == checks[EarliestOf(checks)]
                added == NewEntries(s)
            IN  /\ IsPrefix(call.ledger[s], call.result.ledger[s])
                /\ Len(added) <= 1
                /\ IF failing = {}
                   THEN /\ call.result.error = "ok"
                        /\ \A i \in 1..Len(added) : added[i].type = "short_message"
                   ELSE /\ call.result.error = first.error
                        /\ IF first.entry = "none"
                           THEN added = <<>>
                           ELSE added = <<[type |-> first.entry, timestamp |-> now]>>

\* C20: validate_user_message applies its checks in the order length,
\* inappropriate content, sensitive information, topicality (only when general
\* chat is disabled), conversation limits, repetition, short-message pattern:
\* the error raised is that of the earliest check that rejects the message, the
\* ledger gains the entry of that check (when it writes one) and no entry of a
\* later check.
C20_EarliestFailingCheckWins == [](C20_Always)

\* a message that three checks reject (content filter, sensitive information,
\* conversation limit) was rejected by the content filter, and the ledger
\* gained the one entry of the content filter
C20_Witness ==
    /\ call.op = "validate_user_message"
    /\ call.message = MsgSpamSsn
    /\ Len(call.history) >= MaxConversationLength
    /\ call.ledger = LedgerShort
    /\ call.result.error = "inappropriate_content"
    /\ \A s \in SessionIds :
          /\ Len(call.result.ledger[s]) = ShortMessageLimit + 1
          /\ call.result.ledger[s][ShortMessageLimit + 1].type = "inappropriate_content"

-----------------------------------------------------------------------------
(* The violation ledger *)

\* C21: every rejection of a user message by validate_user_message, whichever
\* check caused it, appends an entry with the violation's type and the current
\* time to the ledger of the session.  (The length check, the conversation
\* limits, the similar-message branch and the short-message pattern raise
\* without calling _record_violation.)
C21_EveryRejectionIsRecorded ==
    (call.op = "validate_user_message" /\ call.result.error # "ok") =>
        \A s \in SessionIds :
            NewEntries(s) = <<[type |-> call.result.error, timestamp |-> now]>>

\* the entries of the ledger a call left or returned
LedgerEntries(s) == Range(call.result.ledger[s])

\* C22: at every moment, for every session, every entry held in the violation
\* ledger is less than 24 hours old.  (Entries are dropped only by
\* _record_violation, when the session is written again; a ledger that is read
\* 24 hours after its last write still holds its entries.)
C22_LedgerEntriesAreYoung ==
    call.op \in {"validate_user_message", "get_session_violations",
                 "validate_user_message_later"} =>
        \A s \in SessionIds :
            \A v \in LedgerEntries(s) : now - v.timestamp < ViolationRetentionMinutes

RequestStarts == nturns' = nturns + 1

\* C23: the violation ledger outlives a turn: the guardrails of a request start
\* with the entries the earlier requests of the process recorded, so that a
\* fourth short message within 5 minutes of three accepted ones is rejected.
\* (get_chat_manager builds a ChatManager, and with it a GuardrailsManager with
\* an empty ledger, for every request.)
C23_LedgerOutlivesTurn ==
    [][RequestStarts =>
          \A s \in SessionIds :
              \A v \in Range(violation_history[1][s]) :
                  (now - v.timestamp < ViolationRetentionMinutes) =>
                      v \in Range(violation_history'[1][s])]_vars

-----------------------------------------------------------------------------
(* The session timeout *)

SessionAge == now - Cur.history[1].timestamp
\* validate_user_message has just returned or raised (the clock has not moved)
JustValidated ==
    /\ Cur.pc \in {"save_user_message", "except"}
    /\ Cur.stages # <<>>
    /\ Cur.stages[Len(Cur.stages)] = "validate_user_message"

\* C24: validate_user_message rejects the input whenever the session age,
\* measured from the timestamp of the first message of the history to now, is
\* greater than or equal to session_timeout_minutes, an age equal to the
\* timeout included, however recent the last activity was; with an empty
\* history the age check never rejects.  (The code compares with '>'.)
C24_TimeoutIncludesTheLimit ==
    JustValidated =>
        /\ (Cur.history # <<>> /\ SessionAge >= SessionTimeoutMinutes) =>
              Cur.pc = "except" /\ Cur.error = "ValidationError"
        /\ Cur.history = <<>> => Cur.reason # "session_timeout"

-----------------------------------------------------------------------------
(* The message list sent to the LLM *)

\* the message list has the shape: system, the last min(10, n) of the n
\* messages of the history with their roles and texts, the user message
ContextShape(ctx, m, history) ==
    LET n == Len(history)
        k == Min(ContextWindow, n)
    IN  /\ Len(ctx) = k + 2
        /\ ctx[1].role = "system"
        /\ \A i \in 2..Len(ctx) : ctx[i].role \in {"user", "assistant"}
        /\ \A i \in 1..k :
              /\ ctx[1 + i].role = history[n - k + i].role
              /\ ctx[1 + i].content = history[n - k + i].content
        /\ ctx[k + 2] = [role |-> "user", content |-> m]

C25_Always ==
    /\ call.op = "prepare_conversation_context" =>
          /\ ContextShape(call.result.messages, call.message, call.history)
          /\ call.result.persisted[Len(call.result.persisted)].content = call.message
          /\ Len(call.result.persisted) = Len(call.history) + 1
    /\ Cur.llm_invoked =>
          /\ ContextShape(Cur.llm_messages, Cur.message, Cur.history)
          /\ Cur.history = StoredBefore
          /\ IsPrefix(Append(StoredBefore, UserMessage(Cur.message, now)), Stored)
             \/ Cur.pc \in FreePcs

\* C25: the message list sent to the LLM is one system message, then the
\* min(10, n) most recent of the n history messages read at the start of the
\* turn, in their order and with their roles, then the current user message;
\* the current user message is there once (as the last entry), although it was
\* persisted before the list was built.
C25_LlmContextShape == [](C25_Always)

\* a context was built from a history of 12 messages that holds the text of the
\* current message already: the list has 12 entries, starts with the third
\* message of the history, and ends with the history's last message and the
\* current message
C25_Witness ==
    /\ call.op = "prepare_conversation_context"
    /\ Len(call.history) = ContextWindow + 2
    /\ call.history[ContextWindow + 1].content = call.message
    /\ Len(call.result.messages) = ContextWindow + 2
    /\ call.result.messages[2].content = call.history[3].content
    /\ call.result.messages[ContextWindow + 1].content = call.history[ContextWindow + 2].content
    /\ call.result.messages[ContextWindow + 2].content = call.message

-----------------------------------------------------------------------------
(* The detector's scores *)

\* what the k-th message of the window adds to the context boost
Contribution(recent, k) == BoostSum(recent, k) - BoostSum(recent, k - 1)

\* C26: in the context boost over the last 6 history messages the recency
\* weighting is monotone: the same number of keyword matches in a more recent
\* message adds at least as much to the boost as in an older message of the
\* window.  (The code's weight (len - index) / len is largest for the oldest
\* message of the window.)
C26_RecentMatchesWeighMore ==
    call.op = "analyze_conversation_context" =>
        LET recent == LastN(call.history, DetectorContextWindow)
        IN  \A i, j \in 1..Len(recent) :
                (/\ i < j
                 /\ KeywordMatches(recent[i].content) = KeywordMatches(recent[j].content)) =>
                    Contribution(recent, j) >= Contribution(recent, i)

\* a token of the message matches a delivery-number pattern and is valid
HasIdentifier(m) ==
    \E i \in 1..Len(Words(m)) :
        /\ \E k \in 1..4 : NumberPattern(k, Words(m)[i])
        /\ ValidateDeliveryNumber(Words(m)[i])

\* the score as the sum of its parts: 0.15 for each intent pattern, 0.40 for a
\* valid identifier, 0.10 for each urgency pattern, 0.25 for each explicit
\* phrase, and the context boost
ScoreOfCall ==
    IntentScore * CountMatches(call.message, IntentPatterns)
    + (IF HasIdentifier(call.message) THEN NumberScore ELSE 0)
    + UrgencyScore * CountMatches(call.message, UrgencyPatterns)
    + ExplicitScore * ExplicitRequests(call.message)
    + AnalyzeConversationContext(call.history)

AtThreshold == ScoreOfCall >= ToolThreshold

\* the fields of a result with tool_required True, and of one with False
ResultWhenRequired ==
    /\ call.result.tool_required
    /\ call.result.tool_name = DeliveryTracker
    /\ call.result.confidence = Min(ScoreOfCall, ScoreUnit)
    /\ call.result.confidence >= ToolThreshold
    /\ call.result.confidence <= ScoreUnit
ResultWhenNotRequired ==
    /\ ~call.result.tool_required
    /\ call.result.tool_name = NoTool
    /\ call.result.confidence = 0
    /\ call.result.extracted_parameters = <<>>

\* C27 as stated: with tools.enabled, tool_required is True exactly when the
\* score is at least 0.3, whatever tools.delivery_tracker_enabled is.
C27_ThresholdWithToolsEnabled ==
    (call.op = "analyze_message" /\ settings.tools_enabled) =>
        IF AtThreshold THEN ResultWhenRequired ELSE ResultWhenNotRequired

\* C27: with tools.enabled and tools.delivery_tracker_enabled, analyze_message
\* reports tool_required=True exactly when the accumulated score is at least
\* 0.3; the confidence is then the score capped at 1.0, so it lies in
\* [0.3, 1.0], and tool_name is "delivery_tracker"; whenever tool_required is
\* False (score below 0.3, or one of the two switches off) the result has
\* confidence 0.0, no tool name and no extracted parameters.
C27_ThresholdDecidesTool ==
    call.op = "analyze_message" =>
        IF ToolsOn /\ AtThreshold THEN ResultWhenRequired ELSE ResultWhenNotRequired

\* a message whose score is exactly 0.3 (two intent patterns, nothing else) was
\* reported with tool_required True and confidence 0.3
C27_Witness ==
    /\ call.op = "analyze_message"
    /\ ToolsOn
    /\ ScoreOfCall = ToolThreshold
    /\ call.result.tool_required
    /\ call.result.confidence = ToolThreshold
    /\ call.result.extracted_parameters = <<>>

-----------------------------------------------------------------------------
(* The repeat-attempt counter of the flow manager *)

\* the assistant messages of the history of the call, oldest first
AssistantMessages ==
    LET isAssistant(msg) == msg.role = "assistant"
    IN  SelectSeq(call.history, isAssistant)

\* the pattern group of the last assistant message
SolicitedGroup == AnalyzeAiRequest(AssistantMessages[Len(AssistantMessages)].content)

\* the length of the longest run of assistant messages, ending with the last
\* one, that all match the solicited group
ConsecutiveRequests ==
    Cardinality({j \in 1..Len(AssistantMessages) :
                    \A i \in j..Len(AssistantMessages) :
                        MatchesGroup(AssistantMessages[i].content, SolicitedGroup)})

C28_Always ==
    (/\ call.op = "analyze_conversation_state"
     /\ call.result.state = "waiting_for_input") =>
        /\ AssistantMessages # <<>>
        /\ SolicitedGroup # 0
        /\ call.result.waiting_for = GroupType(SolicitedGroup)
        /\ call.result.attempts = ConsecutiveRequests
        /\ call.result.attempts >= 1
        /\ call.result.attempts <= Len(AssistantMessages)

\* C28: whenever analyze_conversation_state returns WAITING_FOR_INPUT, its
\* attempts counter is the number of consecutive most recent assistant messages
\* of the history (user messages in between are skipped) that match the pattern
\* group of the solicitation; counting stops at the first assistant message that
\* does not match, so the counter is at least 1 and at most the number of
\* assistant messages of the history.
C28_AttemptsCountConsecutiveRequests == [](C28_Always)

\* the delivery number was asked for, then something else was said, then the
\* number was asked for twice: the state is WAITING_FOR_INPUT with 2 attempts,
\* of 4 assistant messages of which 3 hold the request
C28_Witness ==
    /\ call.op = "analyze_conversation_state"
    /\ call.result.state = "waiting_for_input"
    /\ call.result.waiting_for = "delivery_number"
    /\ call.result.attempts = 2
    /\ Len(AssistantMessages) = 4
    /\ MatchesGroup(AssistantMessages[1].content, SolicitedGroup)
    /\ ~MatchesGroup(AssistantMessages[2].content, SolicitedGroup)

-----------------------------------------------------------------------------
(* Requests for one session that run at the same time *)

\* C29: when a clear_session call or a second turn for the same session is
\* interleaved between the store operations of a running turn (each store
\* operation being atomic), each existing session's message_count equals the
\* number of messages persisted for it, and no message is persisted for a
\* session identifier that has no session record.
C29_CountAndOwnerUnderInterleaving ==
    \A s \in SessionIds :
        /\ sessions[s].exists => sessions[s].message_count = Len(messages[s])
        /\ ~sessions[s].exists => messages[s] = <<>>

(* C30: with turns executed one at a time, turns that fail at the LLM stage
   after their user message was persisted included, the number of messages
   persisted for a session never exceeds max_conversation_length. *)
C30_StoredMessagesWithinLimit ==
    \A s \in SessionIds : Len(messages[s]) <= MaxConversationLength
=============================================================================
